---- MODULE Spec2Model ----
(***************************************************************************)
(* Rent schedule calculator and tenant form of mahsudip/rentwise.           *)
(*                                                                         *)
(* Dates follow ECMAScript: a Date is an instant; `new Date("YYYY-MM-DD")` *)
(* is UTC midnight, `new Date(y, m, d)` is local midnight, the getters and *)
(* setters (getFullYear, setMonth, ...) work on local fields and overflow  *)
(* (31 February rolls into March), and toISOString prints the UTC date.    *)
(* An instant is an integer count of ticks (TicksPerDay per day); the      *)
(* browser's time zone tz is a fixed offset in ticks (no daylight saving). *)
(* Amounts are exact rationals [n, d] in lowest terms (IEEE rounding of    *)
(* Math.pow is not modelled).                                              *)
(***************************************************************************)
EXTENDS Integers, Sequences, FiniteSets, TLC

VARIABLES
    tz,         \* the browser's UTC offset, in ticks
    op,         \* the calculator operation last evaluated
    tenant,     \* the Tenant row the operation was given
    onDate,     \* getEffectiveMonthlyRentForDate's onDate (an instant)
    endDate,    \* calculateContractEndDate's result
    rent,       \* getEffectiveMonthlyRentForDate's result
    breakdown,  \* buildYearlyBreakdown's result
    \* what the pages derive from a tenant row or the form for display
    frequency,        \* the rent_frequency tag looked up
    frequencyMonths,  \* getFrequencyMonths of it, by page
    payable,          \* the "Payable" amounts shown, by page
    shown,            \* the contract end date as rendered, by page
    storedEndDate,    \* contract_end_date as the tenants trigger stores it
    renewalEndDate,   \* the contract end the dashboard's renewals list holds
    \* the loops of getEffectiveMonthlyRentForDate and buildYearlyBreakdown,
    \* one iteration at a time
    pc,         \* "idle", "rentLoop", "breakdownLoop", "done"
    increment,  \* rent_increment_interval_years and _percentage as stored
    loopCheck,      \* getEffectiveMonthlyRentForDate's check
    loopIntervals,  \* getEffectiveMonthlyRentForDate's intervals
    loopCursor,     \* buildYearlyBreakdown's cursor
    loopEnd,    \* buildYearlyBreakdown's end
    \* the tenant add/edit form (AddTenant)
    page,       \* "idle" (not open), "mounted", "left" (navigated away)
    user,       \* whether a user is signed in
    tenantId,   \* the route's tenant id: "none" on the add page
    dbRow,        \* the tenants row behind tenantId
    properties, \* the property ids offered by the selector
    isEditing,
    loading,
    saving,
    formData,
    request,    \* the insert or update in flight, with its payload
    toast,      \* the last notification shown
    clock,      \* the time, as new Date() and PostgreSQL's now() read it
    timestamps, \* created_at and updated_at of the rows of public.tenants, by id
    \* the dashboard, and the tables it reads
    dashUser,     \* whether a user is signed in
    dbProperties, \* the user's rows of public.properties (their number)
    dbTenants,    \* the user's rows of public.tenants
    dbPayments,   \* the user's rows of public.rent_payments
    today,        \* new Date() when the dashboard loads
    stats,
    dashLoading,
    queryErrors,  \* the queries of the last load that returned an error
    dashToast,    \* the last notification the dashboard showed
    \* the payment add/edit form (AddPayment)
    paymentPage,      \* "idle" (not open), "mounted", "left" (navigated away)
    paymentUser,      \* whether a user is signed in
    paymentId,        \* the route's payment id: "none" on the add page
    paymentRow,       \* the rent_payments row behind paymentId
    tenantRows,       \* the user's rows of public.tenants, as fetchTenants selects them
    paymentTenants,   \* the page's tenants
    paymentFetch,     \* the position of fetchData: "tenants", "payment", "done"
    paymentIsEditing,
    paymentLoading,
    paymentSaving,
    paymentFormData,
    paymentRequest,   \* the insert or update in flight, with its payload
    paymentToast,     \* the last notification the page showed
    \* the tenant's documents
    docView,          \* the component uploading: the page or the dialog
    storageObjects,   \* the paths of the objects in the 'documents' bucket
    documentRows,     \* the rows of public.tenant_documents, by file_path
    documents,        \* the documents the list displays
    files,            \* the files chosen in the file input
    uploading,
    inFlight,         \* the requests of the files' promises not yet answered
    awaited,          \* the promises Promise.all still waits for
    uploadPc,         \* handleUpload: "idle", "awaitAll", "refresh"
    uploadCount,      \* the handleUpload calls so far
    deleting,         \* the delete in progress and its step
    docToast          \* the last notification shown

calcVars == <<op, tenant, onDate, endDate, rent, breakdown>>
viewVars == <<frequency, frequencyMonths, payable, shown, storedEndDate,
              renewalEndDate>>
loopVars == <<pc, increment, loopCheck, loopIntervals, loopCursor, loopEnd>>
formVars == <<page, user, tenantId, dbRow, properties, isEditing, loading, saving,
              formData, request, toast, clock, timestamps>>
dashVars == <<dashUser, dbProperties, dbTenants, dbPayments, today, stats,
              dashLoading, queryErrors, dashToast>>
paymentVars == <<paymentPage, paymentUser, paymentId, paymentRow, tenantRows,
                 paymentTenants, paymentFetch, paymentIsEditing, paymentLoading,
                 paymentSaving, paymentFormData, paymentRequest, paymentToast>>
documentVars == <<docView, storageObjects, documentRows, documents, files,
                  uploading, inFlight, awaited, uploadPc, uploadCount, deleting,
                  docToast>>
vars == <<tz, calcVars, viewVars, loopVars, formVars, dashVars, paymentVars,
          documentVars>>

-----------------------------------------------------------------------------
(* Bounds of the model *)

TicksPerDay == 4
MaxPeriodYears == 2
MaxPeriodMonths == 12
MaxIntervals == 6      \* iterations of the interval loop the model follows
MaxUploads == 2        \* handleUpload calls the model follows

TimeZones == {-1, 0, 1}

-----------------------------------------------------------------------------
(* Civil calendar (proleptic Gregorian), as ECMAScript's MakeDay/YearFromTime *)

Max(a, b) == IF a >= b THEN a ELSE b

IsLeap(y) == (y % 4 = 0 /\ y % 100 # 0) \/ y % 400 = 0

DaysInMonth(y, m) ==
    IF m = 2 THEN (IF IsLeap(y) THEN 29 ELSE 28)
    ELSE IF m \in {4, 6, 9, 11} THEN 30 ELSE 31

\* Days from 0000-03-01 to y-m-d, m in 1..12; d may lie outside the month.
DaysFromCivil(y, m, d) ==
    LET yy  == IF m <= 2 THEN y - 1 ELSE y
        era == yy \div 400
        yoe == yy - era * 400
        mp  == IF m > 2 THEN m - 3 ELSE m + 9
        doy == (153 * mp + 2) \div 5 + d - 1
        doe == yoe * 365 + yoe \div 4 - yoe \div 100 + doy
    IN  era * 146097 + doe

\* The civil date [y, m, d] (m in 1..12) of day number z.
CivilFromDays(z) ==
    LET era == z \div 146097
        doe == z - era * 146097
        yoe == (doe - doe \div 1460 + doe \div 36524 - doe \div 146096) \div 365
        doy == doe - (365 * yoe + yoe \div 4 - yoe \div 100)
        mp  == (5 * doy + 2) \div 153
        d   == doy - (153 * mp + 2) \div 5 + 1
        m   == IF mp < 10 THEN mp + 3 ELSE mp - 9
        y   == yoe + era * 400 + (IF m <= 2 THEN 1 ELSE 0)
    IN  [y |-> y, m |-> m, d |-> d]

\* ECMAScript MakeDay: month m0 is 0-based and may overflow into the year,
\* the day may overflow into the neighbouring months.
MakeDay(y, m0, d) == DaysFromCivil(y + (m0 \div 12), (m0 % 12) + 1, 1) + d - 1

-----------------------------------------------------------------------------
(* Strings holding dates: "", "YYYY-MM-DD", or text that is no date; and the *)
(* results of calculateContractEndDate: a date string, null, or a thrown     *)
(* RangeError.                                                               *)

Iso(y, m, d)  == [kind |-> "iso", y |-> y, m |-> m, d |-> d]
EmptyString   == [kind |-> "empty", y |-> 0, m |-> 0, d |-> 0]
NotADate      == [kind |-> "text", y |-> 0, m |-> 0, d |-> 0]
Null          == [kind |-> "null", y |-> 0, m |-> 0, d |-> 0]
RangeError    == [kind |-> "RangeError", y |-> 0, m |-> 0, d |-> 0]

-----------------------------------------------------------------------------
(* ECMAScript Date *)

LocalDay(t) == (t + tz) \div TicksPerDay
LocalTod(t) == (t + tz) % TicksPerDay
FromLocal(day, tod) == day * TicksPerDay + tod - tz

\* new Date("YYYY-MM-DD"): a date-only ISO string is UTC midnight
NewDateISO(s) == DaysFromCivil(s.y, s.m, s.d) * TicksPerDay
\* new Date(year, monthIndex, day): local midnight
NewDateLocal(y, m0, d) == FromLocal(MakeDay(y, m0, d), 0)

GetFullYear(t) == CivilFromDays(LocalDay(t)).y
GetMonth(t)    == CivilFromDays(LocalDay(t)).m - 1
GetDate(t)     == CivilFromDays(LocalDay(t)).d

SetFullYear(t, y) == FromLocal(MakeDay(y, GetMonth(t), GetDate(t)), LocalTod(t))
SetMonth(t, m0)   == FromLocal(MakeDay(GetFullYear(t), m0, GetDate(t)), LocalTod(t))
SetDate(t, d)     == FromLocal(MakeDay(GetFullYear(t), GetMonth(t), d), LocalTod(t))

\* date.toISOString().split('T')[0]: the UTC calendar date
ToISODate(t) ==
    LET c == CivilFromDays(t \div TicksPerDay) IN Iso(c.y, c.m, c.d)

-----------------------------------------------------------------------------
(* Exact amounts *)

RECURSIVE GCD(_, _)
GCD(a, b) == IF b = 0 THEN a ELSE GCD(b, a % b)

RECURSIVE Pow(_, _)
Pow(b, e) == IF e = 0 THEN 1 ELSE b * Pow(b, e - 1)

Amount(n, d) == LET g == GCD(n, d) IN [n |-> n \div g, d |-> d \div g]
Whole(n)     == [n |-> n, d |-> 1]
Times(a, k)  == Amount(a.n * k, a.d)

-----------------------------------------------------------------------------
(* The calculator (Tenants page) *)

\* calculateContractEndDate without the zero-duration test of its guard
calculateContractEndDate_NoZeroGuard(startDate, years, months) ==
    IF startDate.kind = "empty" THEN Null
    ELSE IF startDate.kind # "iso" THEN RangeError
    ELSE LET d0 == NewDateISO(startDate)
             d1 == SetFullYear(d0, GetFullYear(d0) + years)
             d2 == SetMonth(d1, GetMonth(d1) + months)
             d3 == SetDate(d2, GetDate(d2) - 1)
         IN  ToISODate(d3)

\* the period counted one month short: setMonth(getMonth() + months - 1)
calculateContractEndDate_OneMonthShort(startDate, years, months) ==
    IF startDate.kind = "empty" \/ (years = 0 /\ months = 0) THEN Null
    ELSE IF startDate.kind # "iso" THEN RangeError
    ELSE LET d0 == NewDateISO(startDate)
             d1 == SetFullYear(d0, GetFullYear(d0) + years)
             d2 == SetMonth(d1, GetMonth(d1) + months - 1)
             d3 == SetDate(d2, GetDate(d2) - 1)
         IN  ToISODate(d3)

calculateContractEndDate(startDate, years, months) ==
    IF startDate.kind = "empty" \/ (years = 0 /\ months = 0) THEN Null
    ELSE IF startDate.kind # "iso" THEN RangeError  \* toISOString of Invalid Date
    ELSE LET d0 == NewDateISO(startDate)
             d1 == SetFullYear(d0, GetFullYear(d0) + years)
             d2 == SetMonth(d1, GetMonth(d1) + months)
             d3 == SetDate(d2, GetDate(d2) - 1)
         IN  ToISODate(d3)

addMonths(date, months) == SetMonth(date, GetMonth(date) + months)

monthsBetweenInclusive(from, to) ==
    (GetFullYear(to) - GetFullYear(from)) * 12 + (GetMonth(to) - GetMonth(from)) + 1

\* The while loop of getEffectiveMonthlyRentForDate: anniversaries stepped
\* from `check`, counted while they are <= onDate.
RECURSIVE CountIntervals(_, _, _)
CountIntervals(check, on, intervalYears) ==
    LET next == SetFullYear(check, GetFullYear(check) + intervalYears)
    IN  IF next <= on THEN 1 + CountIntervals(next, on, intervalYears) ELSE 0

\* the interval defaulted to 1 instead of 0: (x || 1)
IntervalYearsOf_DefaultOne(t) ==
    Max(IF t.rent_increment_interval_years = 0 THEN 1
        ELSE t.rent_increment_interval_years, 0)

\* the interval taken as stored, without Math.max(..., 0)
IntervalYearsOf_NoClamp(t) == t.rent_increment_interval_years

IntervalYearsOf(t) == Max(t.rent_increment_interval_years, 0)
PctOf(t) == Max(t.rent_increment_percentage, 0)

\* the increment applied as a discount: Math.pow(1 - pct, intervals)
getEffectiveMonthlyRentForDate_Discount(t, on) ==
    LET start == NewDateISO(t.contract_start_date)
        intervalYears == IntervalYearsOf(t)
        pct == PctOf(t)
    IN  IF intervalYears = 0 \/ pct = 0 THEN Whole(t.monthly_rent)
        ELSE LET intervals == CountIntervals(start, on, intervalYears)
                 g == GCD(100 - pct, 100)
             IN  Amount(t.monthly_rent * Pow((100 - pct) \div g, intervals),
                        Pow(100 \div g, intervals))

getEffectiveMonthlyRentForDate(t, on) ==
    LET start == NewDateISO(t.contract_start_date)
        intervalYears == IntervalYearsOf(t)
        pct == PctOf(t)
    IN  IF intervalYears = 0 \/ pct = 0 THEN Whole(t.monthly_rent)
        ELSE LET intervals == CountIntervals(start, on, intervalYears)
                 g == GCD(100 + pct, 100)   \* 1 + pct/100 in lowest terms
             IN  Amount(t.monthly_rent * Pow((100 + pct) \div g, intervals),
                        Pow(100 \div g, intervals))

ContractEnd(t) ==
    LET start == NewDateISO(t.contract_start_date)
        endIso == calculateContractEndDate(t.contract_start_date,
                      t.contract_period_years, t.contract_period_months)
    IN  IF endIso.kind = "iso" THEN NewDateISO(endIso) ELSE addMonths(start, 12)

\* the rent sampled at the end of the calendar year instead
ReferenceDate_YearEnd(periodStart) ==
    NewDateLocal(GetFullYear(periodStart), 11, 31)

ReferenceDate(periodStart) ==
    NewDateLocal(GetFullYear(periodStart), GetMonth(periodStart), 1)

BreakdownRow(t, periodStart, periodEnd) ==
    LET monthsInYear == monthsBetweenInclusive(
            NewDateLocal(GetFullYear(periodStart), GetMonth(periodStart), 1),
            NewDateLocal(GetFullYear(periodEnd), GetMonth(periodEnd), 1))
        monthly == getEffectiveMonthlyRentForDate(t, ReferenceDate(periodStart))
    IN  [yearLabel |-> GetFullYear(periodStart),   \* String(year), injective
         months |-> monthsInYear,
         totalAmount |-> Times(monthly, monthsInYear)]

RECURSIVE BreakdownLoop(_, _, _, _)
BreakdownLoop(t, cursor, end, result) ==
    IF ~(cursor <= end) THEN result
    ELSE LET yearStart == NewDateLocal(GetFullYear(cursor), 0, 1)
             yearEnd == NewDateLocal(GetFullYear(cursor), 11, 31)
             periodStart == IF cursor < yearStart THEN yearStart ELSE cursor
             periodEnd == IF end < yearEnd THEN end ELSE yearEnd
             nextCursor == NewDateLocal(GetFullYear(cursor) + 1, 0, 1)
         IN  IF periodStart > periodEnd
             THEN BreakdownLoop(t, nextCursor, end, result)
             ELSE BreakdownLoop(t, nextCursor, end,
                      Append(result, BreakdownRow(t, periodStart, periodEnd)))

buildYearlyBreakdown(t) ==
    BreakdownLoop(t, NewDateISO(t.contract_start_date), ContractEnd(t), <<>>)

-----------------------------------------------------------------------------
(* Inputs *)

StartYears  == {2020, 2023, 2024}
StartMonths == {1, 2, 3, 10, 12}
StartDays   == {1, 15, 29, 31}

\* The valid "YYYY-MM-DD" strings a date input or a DATE column can hold
StartDates ==
    {s \in {Iso(y, m, d) : y \in StartYears, m \in StartMonths, d \in StartDays} :
        s.d <= DaysInMonth(s.y, s.m)}

StartStrings == StartDates \cup {EmptyString, NotADate}

Rents == {10000}
Percentages == {0, 10}
IntervalYears == {0, 1, 2}

Tenant(s, y, m, r, p, i) ==
    [contract_start_date |-> s, contract_period_years |-> y,
     contract_period_months |-> m, monthly_rent |-> r,
     rent_increment_percentage |-> p, rent_increment_interval_years |-> i]

NoTenant == Tenant(EmptyString, 0, 0, 0, 0, 0)

\* Reference dates: a calendar date, and the instant a caller makes of it,
\* either by new Date("YYYY-MM-DD") or by new Date(y, m - 1, d)
OnYears  == {2021, 2022, 2024}
OnMonths == {1, 2, 3, 6}
OnDays   == {1, 29}

OnCalendarDates ==
    {s \in {Iso(y, m, d) : y \in OnYears, m \in OnMonths, d \in OnDays} :
        s.d <= DaysInMonth(s.y, s.m)}

OnDates ==
    {[date |-> s, t |-> NewDateISO(s)] : s \in OnCalendarDates}
    \cup
    {[date |-> s, t |-> NewDateLocal(s.y, s.m - 1, s.d)] : s \in OnCalendarDates}

NoDate == [date |-> EmptyString, t |-> 0]

-----------------------------------------------------------------------------
(* The tenant add/edit form (AddTenant): values *)

\* a JavaScript number: parseInt and parseFloat give NaN for an empty input
Num(v) == [nan |-> FALSE, v |-> v]
NaN    == [nan |-> TRUE, v |-> 0]

\* the amounts of the payment form: an adjusted amount, and the monthly rent
\* of the model times the months of a billing period
AmountValues == {9000} \cup {10000 * k : k \in {1, 2, 3, 6, 12}}

\* the texts a number input holds in the model, and the integers they spell
NumberTexts == {"", "0", "5", "6", "10000"}

IntOfText(txt) ==
    CASE txt = "0" -> 0 [] txt = "5" -> 5 [] txt = "6" -> 6
      [] txt = "10000" -> 10000
      [] OTHER -> CHOOSE n \in AmountValues : ToString(n) = txt

\* value.toString()
TextOfInt(v) ==
    CASE v = 0 -> "0" [] v = 5 -> "5" [] v = 6 -> "6"
      [] v = 10000 -> "10000"

parseInt(txt) == IF txt = "" THEN NaN ELSE Num(IntOfText(txt))
parseFloat(txt) == IF txt = "" THEN NaN ELSE Num(IntOfText(txt))

\* n || 0
OrZero(n) == IF n.nan THEN 0 ELSE n.v

\* useState's initial formData
InitialFormData ==
    [name |-> "", monthly_rent |-> "", contract_start_date |-> EmptyString,
     contract_period_years |-> "5", contract_period_months |-> "0",
     contract_end_date |-> EmptyString, property_id |-> ""]

\* rows of public.tenants
TenantRow(s, y, m) ==
    [name |-> "A", monthly_rent |-> 10000, contract_start_date |-> s,
     contract_period_years |-> y, contract_period_months |-> m,
     property_id |-> "p1"]

NoRow == TenantRow(EmptyString, 0, 0)

\* the texts of the monthly rent input
RentTexts == {"", "0", "5", "10000"}

FormStartDates == {Iso(2024, 1, 1), Iso(2023, 10, 1)}
YearTexts  == {"", "0", "5"}
MonthTexts == {"", "0", "6"}

Rows == {TenantRow(Iso(2024, 1, 1), y, m) : y \in {0, 5}, m \in {0, 6}}

NoRequest == [state |-> "none", kind |-> "none", data |-> NoRow,
              created_at |-> 0, updated_at |-> 0]

\* created_at and updated_at of the tenants rows that exist when the page opens
NoTimestamps == [id \in {} |-> [created_at |-> 0, updated_at |-> 0]]
TimestampsOf(id) ==
    IF id = "none" THEN NoTimestamps
    ELSE id :> [created_at |-> 1, updated_at |-> 1]

\* the "Contract End Date" line of the form
DisplayedEndDate(f) ==
    calculateContractEndDate(f.contract_start_date,
        OrZero(parseInt(f.contract_period_years)),
        OrZero(parseInt(f.contract_period_months)))

\* fetchTenant's setFormData
FormDataOfRow(r) ==
    LET end == calculateContractEndDate(r.contract_start_date,
                   r.contract_period_years, r.contract_period_months)
    IN  [name |-> r.name,
         monthly_rent |-> TextOfInt(r.monthly_rent),
         contract_start_date |-> r.contract_start_date,
         contract_period_years |-> TextOfInt(r.contract_period_years),
         contract_period_months |-> TextOfInt(r.contract_period_months),
         contract_end_date |-> IF end = Null THEN EmptyString ELSE end,
         property_id |-> r.property_id]

\* handleSubmit's tenantData
TenantData(f) ==
    [name |-> f.name,
     monthly_rent |-> parseFloat(f.monthly_rent),
     contract_start_date |-> f.contract_start_date,
     contract_period_years |-> parseInt(f.contract_period_years),
     contract_period_months |-> parseInt(f.contract_period_months),
     contract_end_date |-> IF f.contract_end_date = EmptyString THEN Null
                           ELSE f.contract_end_date,
     property_id |-> f.property_id]

-----------------------------------------------------------------------------
(* Billing frequency and the amount payable per billing period *)

\* RENT_FREQUENCIES of the form's selector, the CHECK of tenants.rent_frequency
RentFrequencies == {"monthly", "bi-monthly", "tri-monthly", "semi-annually", "yearly"}

\* a JavaScript value as a property lookup yields it
NumberValue(n) == [kind |-> "number", v |-> n]
FunctionValue  == [kind |-> "function", v |-> 0]
Undefined      == [kind |-> "undefined", v |-> 0]

\* property names an object literal inherits from Object.prototype
InheritedNames == {"constructor", "toString", "valueOf", "hasOwnProperty"}

\* obj[name] for a name the literal does not define itself
InheritedProperty(name) ==
    IF name \in InheritedNames THEN FunctionValue ELSE Undefined

\* x || 1
OrOne(x) == IF x.kind = "undefined" \/ (x.kind = "number" /\ x.v = 0)
            THEN NumberValue(1) ELSE x

\* the copy in the tenant form (AddTenant)
AddTenant_getFrequencyMonths(f) ==
    LET map == CASE f = "monthly" -> NumberValue(1)
                 [] f = "bi-monthly" -> NumberValue(2)
                 [] f = "tri-monthly" -> NumberValue(3)
                 [] f = "semi-annually" -> NumberValue(6)
                 [] f = "yearly" -> NumberValue(12)
                 [] OTHER -> InheritedProperty(f)
    IN  OrOne(map)

\* the copy in the tenant list (Tenants)
getFrequencyMonths(f) ==
    LET map == CASE f = "monthly" -> NumberValue(1)
                 [] f = "bi-monthly" -> NumberValue(2)
                 [] f = "tri-monthly" -> NumberValue(3)
                 [] f = "semi-annually" -> NumberValue(6)
                 [] f = "yearly" -> NumberValue(12)
                 [] OTHER -> InheritedProperty(f)
    IN  OrOne(map)

\* the copy in the payment form (AddPayment)
AddPayment_getFrequencyMonths(f) ==
    LET map == CASE f = "monthly" -> NumberValue(1)
                 [] f = "bi-monthly" -> NumberValue(2)
                 [] f = "tri-monthly" -> NumberValue(3)
                 [] f = "semi-annually" -> NumberValue(6)
                 [] f = "yearly" -> NumberValue(12)
                 [] OTHER -> InheritedProperty(f)
    IN  OrOne(map)

\* the copy in the dashboard
Dashboard_getFrequencyMonths(f) ==
    LET map == CASE f = "monthly" -> NumberValue(1)
                 [] f = "bi-monthly" -> NumberValue(2)
                 [] f = "tri-monthly" -> NumberValue(3)
                 [] f = "semi-annually" -> NumberValue(6)
                 [] f = "yearly" -> NumberValue(12)
                 [] OTHER -> InheritedProperty(f)
    IN  OrOne(map)

\* number * value: NaN unless the value is a number
TimesValue(n, x) ==
    IF n.nan \/ x.kind # "number" THEN NaN ELSE Num(n.v * x.v)

\* the monthly rent shown, not multiplied by the months of the period
payableAmount_MonthlyOnly(f) ==
    LET monthly == parseFloat(IF f.monthly_rent = "" THEN "0" ELSE f.monthly_rent)
    IN  IF monthly.nan THEN Num(0) ELSE monthly

\* the form's payableAmount
payableAmount(f) ==
    LET monthly == parseFloat(IF f.monthly_rent = "" THEN "0" ELSE f.monthly_rent)
        months == AddTenant_getFrequencyMonths(f.rent_frequency)
        amount == TimesValue(monthly, months)
    IN  IF amount.nan THEN Num(0) ELSE amount

\* the details dialog's "Payable Amount"
DetailsPayableAmount(t) ==
    TimesValue(Num(t.monthly_rent), getFrequencyMonths(t.rent_frequency))

\* the payment form (AddPayment): useState's initial formData
InitialPaymentFormData ==
    [tenant_id |-> "", period_month_year |-> EmptyString, amount |-> "",
     payment_method |-> "cash", cheque_number |-> "", issue_bank |-> "",
     deposit_bank |-> ""]

\* tenants.find(t => t.id === formData.tenant_id), as the set of matches
SelectedTenant(tenants, f) == {t \in tenants : t.id = f.tenant_id}

autoCalculatedAmount(tenants, f) ==
    IF SelectedTenant(tenants, f) = {} THEN Num(0)
    ELSE LET t == CHOOSE t \in SelectedTenant(tenants, f) : TRUE
         IN  TimesValue(Num(t.monthly_rent),
                        AddPayment_getFrequencyMonths(t.rent_frequency))

\* number.toString()
NumberToString(n) == IF n.nan THEN "NaN" ELSE ToString(n.v)

\* the effect on [selectedTenant, autoCalculatedAmount]
AutoAmountEffect(f, tenants) ==
    IF SelectedTenant(tenants, f) = {} THEN f
    ELSE [f EXCEPT !.amount = NumberToString(autoCalculatedAmount(tenants, f))]

\* PostgreSQL date + interval of n months: the day kept within the month
PgPlusMonths(s, n) ==
    LET idx == (s.m - 1) + n
        y == s.y + idx \div 12
        m == (idx % 12) + 1
    IN  Iso(y, m, IF s.d <= DaysInMonth(y, m) THEN s.d ELSE DaysInMonth(y, m))

\* the trigger calculate_contract_end_date on public.tenants:
\* start + INTERVAL '1 year' * years + INTERVAL '1 month' * months
calculate_contract_end_date(new) ==
    PgPlusMonths(PgPlusMonths(new.contract_start_date, 12 * new.contract_period_years),
                 new.contract_period_months)

\* what a page renders for the contract end date: a label, a date, or
\* nothing because rendering threw
Label(text)   == [text |-> text, date |-> Null]
DateText(d)   == [text |-> "", date |-> d]
RenderThrew   == [text |-> "", date |-> RangeError]
NothingShown  == [form |-> Label(""), card |-> Label(""), dialog |-> Label("")]

\* new Date("YYYY-MM-DD").toLocaleDateString(...): the local calendar date
ToLocaleDateString(s) ==
    LET c == CivilFromDays(LocalDay(NewDateISO(s))) IN DateText(Iso(c.y, c.m, c.d))

\* the form: calculateContractEndDate(...) || 'Not calculated'
FormEndDateLine(f) ==
    LET e == DisplayedEndDate(f)
    IN  IF e = RangeError THEN RenderThrew
        ELSE IF e = Null THEN Label("Not calculated") ELSE DateText(e)

\* the tenant card without the test of endDate: new Date(null) is 1970-01-01
CardEndDate_NoTest(t) ==
    LET e == calculateContractEndDate(t.contract_start_date,
                 t.contract_period_years, t.contract_period_months)
    IN  IF e = RangeError THEN RenderThrew
        ELSE IF e = Null THEN ToLocaleDateString(Iso(1970, 1, 1))
        ELSE ToLocaleDateString(e)

\* the tenant card: endDate ? new Date(endDate).toLocaleDateString('en-GB', ...) : 'N/A'
CardEndDate(t) ==
    LET e == calculateContractEndDate(t.contract_start_date,
                 t.contract_period_years, t.contract_period_months)
    IN  IF e = RangeError THEN RenderThrew
        ELSE IF e = Null THEN Label("N/A") ELSE ToLocaleDateString(e)

\* the details dialog: endDate ? new Date(endDate).toLocaleDateString() : 'N/A'
DialogEndDate(t) ==
    LET e == calculateContractEndDate(t.contract_start_date,
                 t.contract_period_years, t.contract_period_months)
    IN  IF e = RangeError THEN RenderThrew
        ELSE IF e = Null THEN Label("N/A") ELSE ToLocaleDateString(e)

\* strings given to getFrequencyMonths in the model: the five tags and others
FrequencyTags == RentFrequencies \cup {"", "weekly", "constructor"}

NoMonths == [form |-> Undefined, list |-> Undefined, payment |-> Undefined,
             dashboard |-> Undefined]
NoPayable == [rentText |-> "", form |-> NaN, details |-> NaN, payment |-> ""]

-----------------------------------------------------------------------------
(* The dashboard: values *)

RecentPaymentsLimit == 5

\* useState's initial stats
InitialStats ==
    [totalProperties |-> 0, totalTenants |-> 0, monthlyRevenue |-> Num(0),
     recentPayments |-> <<>>, upcomingRenewals |-> <<>>, overduePayments |-> <<>>]

DashIdle ==
    /\ dashUser = FALSE
    /\ dbProperties = 0
    /\ dbTenants = {}
    /\ dbPayments = {}
    /\ today = 0
    /\ stats = InitialStats
    /\ dashLoading = TRUE
    /\ queryErrors = {}
    /\ dashToast = "none"

\* the contract end the dashboard computes for the renewals list
DashboardContractEnd(t) ==
    LET startDate == NewDateISO(t.contract_start_date)
        totalMonths == (t.contract_period_years * 12) + t.contract_period_months
        contractEnd == SetMonth(startDate, GetMonth(startDate) + totalMonths)
    IN  SetDate(contractEnd, GetDate(contractEnd) - 1)

\* date-fns differenceInDays: full days between two instants, toward zero
differenceInDays(left, right) ==
    IF left >= right THEN (left - right) \div TicksPerDay
    ELSE 0 - ((right - left) \div TicksPerDay)

\* format(date, 'MMM dd, yyyy'): the local calendar date
FormatDate(t) == LET c == CivilFromDays(LocalDay(t)) IN Iso(c.y, c.m, c.d)

Renewal(t, now) ==
    [id |-> t.id, daysLeft |-> differenceInDays(DashboardContractEnd(t), now),
     contractEndDate |-> DashboardContractEnd(t)]

\* .filter(daysLeft > 0).sort((a, b) => a.daysLeft - b.daysLeft): the orders a
\* stable sort can give, the order of the rows returned being unspecified
UpcomingRenewals(tenants, now) ==
    LET kept == {r \in {Renewal(t, now) : t \in tenants} : r.daysLeft > 0}
        n == Cardinality(kept)
    IN  {q \in [1..n -> kept] :
            /\ \A i, j \in 1..n : i # j => q[i] # q[j]
            /\ \A i, j \in 1..n : i < j => q[i].daysLeft <= q[j].daysLeft}

\* .order('created_at', { ascending: false }).limit(n)
RECURSIVE NewestFirst(_, _)
NewestFirst(payments, n) ==
    IF n = 0 \/ payments = {} THEN <<>>
    ELSE LET p == CHOOSE p \in payments :
                    \A q \in payments : q.created_at <= p.created_at
         IN  <<p>> \o NewestFirst(payments \ {p}, n - 1)

RECURSIVE MonthlyRevenue(_)
MonthlyRevenue(tenants) ==
    IF tenants = {} THEN Num(0)
    ELSE LET t == CHOOSE t \in tenants : TRUE
             rest == MonthlyRevenue(tenants \ {t})
             amount == TimesValue(Num(t.monthly_rent),
                           Dashboard_getFrequencyMonths(t.rent_frequency))
         IN  IF rest.nan \/ amount.nan THEN NaN ELSE Num(rest.v + amount.v)

OverduePayments(payments, now) ==
    SelectSeq(payments, LAMBDA p : ~p.paid /\ NewDateISO(p.period_end) < now)

\* tenants rows of the model
DashTenant(id, s, y, m, r, f) ==
    [id |-> id, contract_start_date |-> s, contract_period_years |-> y,
     contract_period_months |-> m, monthly_rent |-> r, rent_frequency |-> f]

DashTenantRows ==
    {DashTenant("t1", Iso(2024, 1, 1), 1, 0, 10000, "monthly"),
     DashTenant("t2", Iso(2020, 2, 29), 1, 1, 5000, "yearly"),
     DashTenant("t3", Iso(2023, 10, 31), 0, 6, 2500, "tri-monthly")}

\* rent_payments rows of the model: payment k is the k-th created
Payment(k, paid, periodEnd) ==
    [id |-> k, created_at |-> k, paid |-> paid, period_end |-> periodEnd]

DbPaymentTables ==
    {{},
     {Payment(1, TRUE, Iso(2024, 1, 31)), Payment(2, FALSE, Iso(2024, 2, 29))},
     {Payment(1, FALSE, Iso(2024, 1, 31)), Payment(2, TRUE, Iso(2024, 2, 29)),
      Payment(3, TRUE, Iso(2024, 3, 31)), Payment(4, TRUE, Iso(2024, 4, 30)),
      Payment(5, TRUE, Iso(2024, 5, 31)), Payment(6, FALSE, Iso(2024, 6, 30))}}

\* instants at which the dashboard is opened
Todays == {NewDateISO(Iso(2021, 3, 30)) + 1, NewDateISO(Iso(2024, 6, 15)) + 2}

-----------------------------------------------------------------------------
(* The payment add/edit form (AddPayment): values *)

PaymentMethods == {"cash", "cheque", "bank_deposit"}

\* a nullable text column
Text(s)  == [null |-> FALSE, text |-> s]
NullText == [null |-> TRUE, text |-> ""]

\* value || ''
OrEmpty(x) == IF x.null THEN "" ELSE x.text

\* the value "YYYY-MM" of a month-year option
MonthYear(y, m) == [kind |-> "month", y |-> y, m |-> m, d |-> 0]

\* payment.period_start.slice(0, 7)
MonthYearOf(date) == MonthYear(date.y, date.m)

\* the rows fetchTenants selects
PaymentTenant(id, r, f) == [id |-> id, monthly_rent |-> r, rent_frequency |-> f]

\* rows of public.rent_payments
PaymentRow(t, start, amount, method, cheque, issue, deposit) ==
    [tenant_id |-> t, period_start |-> start, amount |-> amount,
     payment_method |-> method, cheque_number |-> cheque, issue_bank |-> issue,
     deposit_bank |-> deposit]

NoPaymentRow ==
    PaymentRow("", EmptyString, 0, NullText, NullText, NullText, NullText)

\* calculatePeriodEnd; selectedTenant is the set of matches of tenants.find
calculatePeriodEnd(monthYear, selectedTenant) ==
    IF monthYear = EmptyString THEN Null
    ELSE LET startDate == NewDateLocal(monthYear.y, monthYear.m - 1, 1)
             months ==
                 IF selectedTenant # {}
                 THEN AddPayment_getFrequencyMonths(
                          (CHOOSE t \in selectedTenant : TRUE).rent_frequency)
                 ELSE NumberValue(1)
         IN  IF months.kind # "number" THEN RangeError
             ELSE LET plus == SetMonth(startDate,
                                       GetMonth(startDate) + months.v)
                  IN  ToISODate(SetDate(plus, GetDate(plus) - 1))

\* fetchPayment's setFormData
FormDataOfPayment(p) ==
    [tenant_id |-> p.tenant_id,
     period_month_year |-> MonthYearOf(p.period_start),
     amount |-> NumberToString(Num(p.amount)),
     payment_method |-> IF p.payment_method.null THEN "cash"
                        ELSE p.payment_method.text,
     cheque_number |-> OrEmpty(p.cheque_number),
     issue_bank |-> OrEmpty(p.issue_bank),
     deposit_bank |-> OrEmpty(p.deposit_bank)]

\* the method's fields sent as they were typed, whatever the method
PaymentData_AsTyped(f, selectedTenant) ==
    [tenant_id |-> f.tenant_id,
     period_start |-> Iso(f.period_month_year.y, f.period_month_year.m, 1),
     period_end |-> calculatePeriodEnd(f.period_month_year, selectedTenant),
     amount |-> parseFloat(f.amount),
     paid |-> TRUE,
     payment_method |-> f.payment_method,
     cheque_number |-> Text(f.cheque_number),
     issue_bank |-> Text(f.issue_bank),
     deposit_bank |-> Text(f.deposit_bank)]

\* handleSubmit's paymentData
PaymentData(f, selectedTenant) ==
    [tenant_id |-> f.tenant_id,
     period_start |-> Iso(f.period_month_year.y, f.period_month_year.m, 1),
     period_end |-> calculatePeriodEnd(f.period_month_year, selectedTenant),
     amount |-> parseFloat(f.amount),
     paid |-> TRUE,
     payment_method |-> f.payment_method,
     cheque_number |-> IF f.payment_method = "cheque" THEN Text(f.cheque_number)
                       ELSE NullText,
     issue_bank |-> IF f.payment_method = "cheque" THEN Text(f.issue_bank)
                    ELSE NullText,
     deposit_bank |-> IF f.payment_method \in {"cheque", "bank_deposit"}
                      THEN Text(f.deposit_bank) ELSE NullText]

NoPaymentData ==
    [tenant_id |-> "", period_start |-> EmptyString, period_end |-> Null,
     amount |-> NaN, paid |-> FALSE, payment_method |-> "",
     cheque_number |-> NullText, issue_bank |-> NullText,
     deposit_bank |-> NullText]

NoPaymentRequest == [state |-> "none", kind |-> "none", data |-> NoPaymentData]

\* the form after the effect on [selectedTenant, autoCalculatedAmount]: the
\* effect runs when the render's selectedTenant differs from the one before
AfterAutoAmountEffect(before, tenantsBefore, after, tenantsAfter) ==
    IF SelectedTenant(tenantsAfter, after) # SelectedTenant(tenantsBefore, before)
    THEN AutoAmountEffect(after, tenantsAfter)
    ELSE after

\* inputs of the model
PeriodMonths == {MonthYear(2024, 1), MonthYear(2023, 12)}

TenantLists == {{PaymentTenant("t1", 10000, f)} : f \in RentFrequencies}

PaymentRows ==
    {PaymentRow("t1", Iso(2024, 1, 1), 9000, Text("cash"), NullText, NullText,
                NullText),
     PaymentRow("t1", Iso(2023, 12, 1), 10000, Text("cheque"), Text("C1"),
                Text("B1"), Text("B2"))}

-----------------------------------------------------------------------------
(* Calculator specification: the page, once loaded (op = "init"), evaluates    *)
(* one operation on one input; the operations are pure, so one call each      *)
(* covers every call.                                                         *)

NoIncrement == [interval |-> Num(0), pct |-> Num(0)]

LoopIdle ==
    /\ pc = "idle"
    /\ increment = NoIncrement
    /\ loopCheck = 0
    /\ loopIntervals = 0
    /\ loopCursor = 0
    /\ loopEnd = 0

CalcIdle ==
    /\ op = "init"
    /\ tenant = NoTenant
    /\ onDate = NoDate
    /\ endDate = Null
    /\ rent = Whole(0)
    /\ breakdown = <<>>
    /\ frequency = ""
    /\ frequencyMonths = NoMonths
    /\ payable = NoPayable
    /\ shown = NothingShown
    /\ storedEndDate = Null
    /\ renewalEndDate = Null
    /\ LoopIdle

(* Tenant documents: the Documents page, and the upload dialog and the       *)
(* document list of the Tenants page, which run the same steps               *)

DocumentViews == {"Documents", "UploadDocumentsModal"}

\* the files offered to the file input
DocumentFiles == {"a.pdf", "b.pdf"}

\* filePath: unique to a file of a handleUpload (Date.now() and a random part)
FilePath(n, file) == [upload |-> n, file |-> file]

\* a step of a file's promise in flight
Task(p, step) == [path |-> p, step |-> step]

NoDeletion == [path |-> FilePath(0, ""), step |-> "none"]

DocumentsIdle ==
    /\ docView = "Documents"
    /\ storageObjects = {}
    /\ documentRows = {}
    /\ documents = {}
    /\ files = {}
    /\ uploading = FALSE
    /\ inFlight = {}
    /\ awaited = {}
    /\ uploadPc = "idle"
    /\ uploadCount = 0
    /\ deleting = NoDeletion
    /\ docToast = "none"

PaymentIdle ==
    /\ paymentPage = "idle"
    /\ paymentUser = TRUE
    /\ paymentId = "none"
    /\ paymentRow = NoPaymentRow
    /\ tenantRows = {}
    /\ paymentTenants = {}
    /\ paymentFetch = "tenants"
    /\ paymentIsEditing = FALSE
    /\ paymentLoading = TRUE
    /\ paymentSaving = FALSE
    /\ paymentFormData = InitialPaymentFormData
    /\ paymentRequest = NoPaymentRequest
    /\ paymentToast = "none"

FormIdle ==
    /\ page = "idle"
    /\ user = TRUE
    /\ tenantId = "none"
    /\ dbRow = NoRow
    /\ properties = {}
    /\ isEditing = FALSE
    /\ loading = TRUE
    /\ saving = FALSE
    /\ formData = InitialFormData
    /\ request = NoRequest
    /\ toast = "none"
    /\ clock = 1
    /\ timestamps = TimestampsOf(tenantId)

Init ==
    /\ tz \in TimeZones
    /\ CalcIdle
    /\ FormIdle
    /\ DashIdle
    /\ PaymentIdle
    /\ DocumentsIdle

\* the "Contract End Date" of the form, the tenant card and the details dialog
CalculateContractEndDate ==
    /\ op = "init"
    /\ \E s \in StartStrings, y \in 0..MaxPeriodYears, m \in 0..MaxPeriodMonths :
        /\ op' = "calculateContractEndDate"
        /\ tenant' = Tenant(s, y, m, 0, 0, 0)
        /\ endDate' = calculateContractEndDate(s, y, m)
        /\ onDate' = NoDate
        /\ rent' = Whole(0)
        /\ breakdown' = <<>>
        /\ UNCHANGED <<tz, viewVars, loopVars, formVars, dashVars, paymentVars, documentVars>>

GetEffectiveMonthlyRentForDate ==
    /\ op = "init"
    /\ \E s \in StartDates, r \in Rents, p \in Percentages, i \in IntervalYears,
       d \in OnDates :
        /\ op' = "getEffectiveMonthlyRentForDate"
        /\ tenant' = Tenant(s, 1, 0, r, p, i)
        /\ onDate' = d
        /\ rent' = getEffectiveMonthlyRentForDate(tenant', d.t)
        /\ endDate' = Null
        /\ breakdown' = <<>>
        /\ UNCHANGED <<tz, viewVars, loopVars, formVars, dashVars, paymentVars, documentVars>>

\* the tenant details dialog: end date and yearly rent breakdown of a row
BuildYearlyBreakdown ==
    /\ op = "init"
    /\ \E s \in StartDates, y \in 0..MaxPeriodYears, m \in 0..MaxPeriodMonths,
       r \in Rents, p \in Percentages, i \in IntervalYears :
        /\ op' = "buildYearlyBreakdown"
        /\ tenant' = Tenant(s, y, m, r, p, i)
        /\ endDate' = calculateContractEndDate(s, y, m)
        /\ breakdown' = buildYearlyBreakdown(tenant')
        /\ onDate' = NoDate
        /\ rent' = Whole(0)
        /\ UNCHANGED <<tz, viewVars, loopVars, formVars, dashVars, paymentVars, documentVars>>

\* getFrequencyMonths(tag), on each of the four pages that define it
GetFrequencyMonths ==
    /\ op = "init"
    /\ \E f \in FrequencyTags :
        /\ op' = "getFrequencyMonths"
        /\ frequency' = f
        /\ frequencyMonths' = [form |-> AddTenant_getFrequencyMonths(f),
                               list |-> getFrequencyMonths(f),
                               payment |-> AddPayment_getFrequencyMonths(f),
                               dashboard |-> Dashboard_getFrequencyMonths(f)]
        /\ UNCHANGED <<tz, tenant, onDate, endDate, rent, breakdown, payable, shown, storedEndDate,
                       renewalEndDate, loopVars, formVars, dashVars, paymentVars, documentVars>>

\* the "Payable" line of the tenant form, the "Payable Amount" of the
\* details dialog, and the amount the payment form fills in once the tenant
\* is selected
PayableAmount ==
    /\ op = "init"
    /\ \E txt \in RentTexts, r \in Rents \cup {5}, f \in RentFrequencies :
        LET row == [id |-> "t1", monthly_rent |-> r, rent_frequency |-> f]
            selected == [InitialPaymentFormData EXCEPT !.tenant_id = "t1"]
        IN  /\ op' = "payableAmount"
            /\ frequency' = f
            /\ frequencyMonths' = NoMonths
            /\ tenant' = Tenant(EmptyString, 0, 0, r, 0, 0)
            /\ payable' =
                  [rentText |-> txt,
                   form |-> payableAmount([monthly_rent |-> txt, rent_frequency |-> f]),
                   details |-> DetailsPayableAmount(row),
                   payment |-> AutoAmountEffect(selected, {row}).amount]
            /\ UNCHANGED <<tz, onDate, endDate, rent, breakdown, shown, storedEndDate,
                           renewalEndDate, loopVars, formVars, dashVars, paymentVars, documentVars>>

\* the contract end date as the form renders it for its fields, and as the
\* tenant card and the details dialog render it for the row with those terms
RenderContractEndDate ==
    /\ op = "init"
    /\ \E s \in StartStrings, yt \in YearTexts, mt \in MonthTexts :
        LET f == [InitialFormData EXCEPT !.contract_start_date = s,
                                         !.contract_period_years = yt,
                                         !.contract_period_months = mt]
            t == Tenant(s, OrZero(parseInt(yt)), OrZero(parseInt(mt)), 0, 0, 0)
        IN  /\ op' = "renderContractEndDate"
            /\ tenant' = t
            /\ endDate' = calculateContractEndDate(t.contract_start_date,
                              t.contract_period_years, t.contract_period_months)
            /\ shown' = [form |-> FormEndDateLine(f), card |-> CardEndDate(t),
                         dialog |-> DialogEndDate(t)]
            /\ UNCHANGED <<tz, onDate, rent, breakdown, frequency, frequencyMonths,
                           payable, storedEndDate, renewalEndDate, loopVars,
                           formVars, dashVars, paymentVars, documentVars>>

\* a tenants row inserted or updated: the end date the trigger stores, next
\* to the end date the tenant list computes for the stored row
TenantsBeforeInsertOrUpdate ==
    /\ op = "init"
    /\ \E s \in StartDates, y \in 0..MaxPeriodYears, m \in 0..MaxPeriodMonths :
        /\ op' = "calculate_contract_end_date"
        /\ tenant' = Tenant(s, y, m, 0, 0, 0)
        /\ storedEndDate' = calculate_contract_end_date(tenant')
        /\ endDate' = calculateContractEndDate(s, y, m)
        /\ UNCHANGED <<tz, onDate, rent, breakdown, frequency, frequencyMonths,
                       payable, shown, renewalEndDate, loopVars, formVars, dashVars, paymentVars, documentVars>>

\* a tenants row on the dashboard's renewals list: its contract end there,
\* next to the end date the tenant list computes for the row
RenewalContractEnd ==
    /\ op = "init"
    /\ \E s \in StartDates, y \in 0..MaxPeriodYears, m \in 0..MaxPeriodMonths :
        /\ op' = "upcomingRenewals"
        /\ tenant' = Tenant(s, y, m, 0, 0, 0)
        /\ renewalEndDate' = ToISODate(DashboardContractEnd(tenant'))
        /\ endDate' = calculateContractEndDate(s, y, m)
        /\ UNCHANGED <<tz, onDate, rent, breakdown, frequency, frequencyMonths,
                       payable, shown, storedEndDate, loopVars, formVars, dashVars, paymentVars, documentVars>>

Next ==
    \/ CalculateContractEndDate
    \/ GetEffectiveMonthlyRentForDate
    \/ BuildYearlyBreakdown
    \/ GetFrequencyMonths
    \/ PayableAmount
    \/ RenderContractEndDate
    \/ TenantsBeforeInsertOrUpdate
    \/ RenewalContractEnd

Spec == Init /\ [][Next]_vars

-----------------------------------------------------------------------------
(* The loops of the calculator, one iteration per step *)

\* rent_increment_interval_years and rent_increment_percentage as a row or a
\* caller holds them: a number, or nothing (null, undefined, NaN)
StoredIntervals == {Num(-1), Num(0), Num(1), Num(2), NaN}
StoredPercentages == {Num(-5), Num(0), Num(10), NaN}

LoopStartDates == {Iso(2020, 1, 1), Iso(2020, 2, 29), Iso(2023, 10, 31)}
LoopPeriods == {[y |-> 0, m |-> 0], [y |-> 0, m |-> 6], [y |-> 1, m |-> 0],
                [y |-> 2, m |-> 1]}

\* the effective rent once the loop has counted n intervals
RentAfter(t, n) ==
    LET g == GCD(100 + PctOf(t), 100)
    IN  Amount(t.monthly_rent * Pow((100 + PctOf(t)) \div g, n), Pow(100 \div g, n))

\* getEffectiveMonthlyRentForDate up to its loop
RentStart ==
    /\ pc = "idle"
    /\ \E s \in LoopStartDates, r \in Rents, i \in StoredIntervals,
          p \in StoredPercentages, d \in OnDates :
        /\ op' = "getEffectiveMonthlyRentForDate"
        /\ increment' = [interval |-> i, pct |-> p]
        /\ tenant' = Tenant(s, 1, 0, r, OrZero(p), OrZero(i))
        /\ onDate' = d
        /\ loopCheck' = NewDateISO(s)
        /\ loopIntervals' = 0
        /\ IF IntervalYearsOf(tenant') = 0 \/ PctOf(tenant') = 0
           THEN pc' = "done" /\ rent' = Whole(r)
           ELSE pc' = "rentLoop" /\ rent' = rent
    /\ UNCHANGED <<tz, endDate, breakdown, loopCursor, loopEnd, viewVars, formVars, dashVars, paymentVars, documentVars>>

\* one iteration of while (true)
RentStep ==
    /\ pc = "rentLoop"
    /\ loopIntervals < MaxIntervals
    /\ LET next == SetFullYear(loopCheck, GetFullYear(loopCheck) + IntervalYearsOf(tenant))
       IN  IF next <= onDate.t
           THEN /\ loopIntervals' = loopIntervals + 1
                /\ loopCheck' = SetFullYear(loopCheck, GetFullYear(loopCheck) + IntervalYearsOf(tenant))
                /\ UNCHANGED <<pc, rent>>
           ELSE /\ pc' = "done"
                /\ rent' = RentAfter(tenant, loopIntervals)
                /\ UNCHANGED <<loopCheck, loopIntervals>>
    /\ UNCHANGED <<tz, op, tenant, onDate, endDate, breakdown, increment, loopCursor,
                   loopEnd, viewVars, formVars, dashVars, paymentVars, documentVars>>

\* buildYearlyBreakdown up to its loop
BreakdownStart ==
    /\ pc = "idle"
    /\ \E s \in LoopStartDates, per \in LoopPeriods, r \in Rents,
          i \in StoredIntervals, p \in StoredPercentages :
        /\ op' = "buildYearlyBreakdown"
        /\ increment' = [interval |-> i, pct |-> p]
        /\ tenant' = Tenant(s, per.y, per.m, r, OrZero(p), OrZero(i))
        /\ endDate' = calculateContractEndDate(s, per.y, per.m)
        /\ loopCursor' = NewDateISO(s)
        /\ loopEnd' = ContractEnd(tenant')
        /\ breakdown' = <<>>
        /\ pc' = "breakdownLoop"
    /\ UNCHANGED <<tz, onDate, rent, loopCheck, loopIntervals, viewVars, formVars, dashVars, paymentVars, documentVars>>

\* one iteration of while (cursor <= end)
BreakdownStep ==
    /\ pc = "breakdownLoop"
    /\ IF ~(loopCursor <= loopEnd)
       THEN pc' = "done" /\ UNCHANGED <<loopCursor, breakdown>>
       ELSE LET yearStart == NewDateLocal(GetFullYear(loopCursor), 0, 1)
                yearEnd == NewDateLocal(GetFullYear(loopCursor), 11, 31)
                periodStart == IF loopCursor < yearStart THEN yearStart ELSE loopCursor
                periodEnd == IF loopEnd < yearEnd THEN loopEnd ELSE yearEnd
            IN  /\ breakdown' = IF periodStart > periodEnd THEN breakdown
                                 ELSE Append(breakdown,
                                        BreakdownRow(tenant, periodStart, periodEnd))
                /\ loopCursor' = NewDateLocal(GetFullYear(loopCursor) + 1, 0, 1)
                /\ pc' = pc
    /\ UNCHANGED <<tz, op, tenant, onDate, endDate, rent, increment, loopCheck, loopIntervals,
                   loopEnd, viewVars, formVars, dashVars, paymentVars, documentVars>>

NextLoops ==
    \/ RentStart
    \/ RentStep
    \/ BreakdownStart
    \/ BreakdownStep

SpecLoops == Init /\ [][NextLoops]_vars

-----------------------------------------------------------------------------
(* The tenant add/edit form (AddTenant): the page *)

\* the component as constructed, before its effect has run
InitForm ==
    /\ tz \in TimeZones
    /\ CalcIdle
    /\ page = "mounted"
    /\ user \in BOOLEAN
    /\ tenantId \in {"none", "t1"}
    /\ dbRow \in (IF tenantId = "none" THEN {NoRow} ELSE Rows)
    /\ properties = {}
    /\ isEditing = FALSE
    /\ loading = TRUE
    /\ saving = FALSE
    /\ formData = InitialFormData
    /\ request = NoRequest
    /\ toast = "none"
    /\ clock = 1
    /\ timestamps = TimestampsOf(tenantId)
    /\ DashIdle
    /\ PaymentIdle
    /\ DocumentsIdle

\* fetchProperties: nothing without a user, else the list or an error toast
FetchPropertiesOutcomes ==
    IF user THEN {[properties |-> {"p1"}, toast |-> toast],
                  [properties |-> properties, toast |-> "Failed to fetch properties"]}
    ELSE {[properties |-> properties, toast |-> toast]}

\* the effect on the add page: fetchProperties, then setLoading(false)
FetchDataNew ==
    /\ page = "mounted" /\ loading /\ tenantId = "none"
    /\ \E o \in FetchPropertiesOutcomes :
        /\ properties' = o.properties
        /\ toast' = o.toast
    /\ loading' = FALSE
    /\ UNCHANGED <<tz, calcVars, viewVars, loopVars, dashVars, paymentVars, documentVars, page, user, tenantId, dbRow, isEditing, saving,
                   formData, request, clock, timestamps>>

\* the effect on the edit page, fetchTenant returning the dbRow
FetchTenantLoaded ==
    /\ page = "mounted" /\ loading /\ tenantId # "none"
    /\ \E o \in FetchPropertiesOutcomes :
        /\ properties' = o.properties
        /\ toast' = o.toast
    /\ isEditing' = TRUE
    /\ formData' = FormDataOfRow(dbRow)
    /\ loading' = FALSE
    /\ UNCHANGED <<tz, calcVars, viewVars, loopVars, dashVars, paymentVars, documentVars, page, user, tenantId, dbRow, saving, request,
                   clock, timestamps>>

\* the effect on the edit page, fetchTenant failing
FetchTenantFailed ==
    /\ page = "mounted" /\ loading /\ tenantId # "none"
    /\ \E o \in FetchPropertiesOutcomes : properties' = o.properties
    /\ toast' = "Failed to load tenant details"
    /\ loading' = FALSE
    /\ UNCHANGED <<tz, calcVars, viewVars, loopVars, dashVars, paymentVars, documentVars, page, user, tenantId, dbRow, isEditing, saving,
                   formData, request, clock, timestamps>>

EditFrame ==
    UNCHANGED <<tz, calcVars, viewVars, loopVars, dashVars, paymentVars, documentVars, page, user, tenantId, dbRow, properties, isEditing,
                loading, saving, request, toast, clock, timestamps>>

SetName ==
    /\ page = "mounted"
    /\ \E v \in {"", "A"} : formData' = [formData EXCEPT !.name = v]
    /\ EditFrame

SetMonthlyRent ==
    /\ page = "mounted"
    /\ \E v \in {"", "10000"} : formData' = [formData EXCEPT !.monthly_rent = v]
    /\ EditFrame

SetContractStartDate ==
    /\ page = "mounted"
    /\ \E v \in FormStartDates \cup {EmptyString} :
        formData' = [formData EXCEPT !.contract_start_date = v]
    /\ EditFrame

SetContractPeriodYears ==
    /\ page = "mounted"
    /\ \E v \in YearTexts : formData' = [formData EXCEPT !.contract_period_years = v]
    /\ EditFrame

SetContractPeriodMonths ==
    /\ page = "mounted"
    /\ \E v \in MonthTexts : formData' = [formData EXCEPT !.contract_period_months = v]
    /\ EditFrame

SetPropertyId ==
    /\ page = "mounted"
    /\ \E v \in properties : formData' = [formData EXCEPT !.property_id = v]
    /\ EditFrame

SubmitEnabled == page = "mounted" /\ ~saving /\ ~loading

RequiredFilled ==
    /\ formData.name # ""
    /\ formData.monthly_rent # ""
    /\ formData.contract_start_date # EmptyString
    /\ formData.property_id # ""

\* handleSubmit without a user: returns at once
HandleSubmitNoUser ==
    /\ SubmitEnabled /\ ~user
    /\ UNCHANGED vars

\* handleSubmit with a required field empty: a toast, nothing sent
HandleSubmitInvalid ==
    /\ SubmitEnabled /\ user /\ ~RequiredFilled
    /\ toast' = "Validation Error"
    /\ UNCHANGED <<tz, calcVars, viewVars, loopVars, dashVars, paymentVars, documentVars, page, user, tenantId, dbRow, properties, isEditing,
                   loading, saving, formData, request, clock, timestamps>>

\* handleSubmit up to its await: setSaving(true), the update or insert sent;
\* created_at and updated_at of the payload are new Date() at that moment,
\* later than the moment the page was opened
HandleSubmit ==
    /\ SubmitEnabled /\ user /\ RequiredFilled
    /\ saving' = TRUE
    /\ clock' = clock + 1
    /\ request' = [state |-> "pending",
                   kind |-> IF isEditing /\ tenantId # "none" THEN "update"
                            ELSE "insert",
                   data |-> TenantData(formData),
                   created_at |-> clock', updated_at |-> clock']
    /\ UNCHANGED <<tz, calcVars, viewVars, loopVars, dashVars, paymentVars, documentVars, page, user, tenantId, dbRow, properties, isEditing,
                   loading, formData, toast, timestamps>>

\* update_updated_at_column, BEFORE UPDATE on public.tenants
update_updated_at_column(new, time) == [new EXCEPT !.updated_at = time]

\* what the tenants table holds once the request is applied: an update sets
\* the columns of the payload on the row of tenantId and then runs the
\* trigger, an insert adds a row with the payload's columns
TimestampsAfter(req, id, table, time) ==
    LET sent == [created_at |-> req.created_at, updated_at |-> req.updated_at]
    IN  IF req.kind = "update"
        THEN [r \in DOMAIN table |->
                 IF r = id THEN update_updated_at_column(sent, time)
                 ELSE table[r]]
        ELSE ("new" :> sent) @@ table

\* the save answered without error: toast, navigate, finally setLoading(false)
SaveSucceeded ==
    /\ request.state = "pending"
    /\ request' = [request EXCEPT !.state = "ok"]
    /\ toast' = "Success"
    /\ page' = "left"
    /\ loading' = FALSE
    /\ clock' = clock + 1
    /\ timestamps' = TimestampsAfter(request, tenantId, timestamps, clock')
    /\ UNCHANGED <<tz, calcVars, viewVars, loopVars, dashVars, paymentVars, documentVars, user, tenantId, dbRow, properties, isEditing,
                   saving, formData>>

\* the save answered with an error: toast, finally setLoading(false)
SaveFailed ==
    /\ request.state = "pending"
    /\ request' = [request EXCEPT !.state = "error"]
    /\ toast' = "Failed to create tenant"
    /\ loading' = FALSE
    /\ UNCHANGED <<tz, calcVars, viewVars, loopVars, dashVars, paymentVars, documentVars, page, user, tenantId, dbRow, properties, isEditing,
                   saving, formData, clock, timestamps>>

NextForm ==
    \/ FetchDataNew
    \/ FetchTenantLoaded
    \/ FetchTenantFailed
    \/ SetName
    \/ SetMonthlyRent
    \/ SetContractStartDate
    \/ SetContractPeriodYears
    \/ SetContractPeriodMonths
    \/ SetPropertyId
    \/ HandleSubmitNoUser
    \/ HandleSubmitInvalid
    \/ HandleSubmit
    \/ SaveSucceeded
    \/ SaveFailed

SpecForm == InitForm /\ [][NextForm]_vars

-----------------------------------------------------------------------------
(* The dashboard: the page *)

InitDashboard ==
    /\ tz \in TimeZones
    /\ CalcIdle
    /\ FormIdle
    /\ PaymentIdle
    /\ DocumentsIdle
    /\ dashUser \in BOOLEAN
    /\ dbProperties \in {0, 2}
    /\ dbTenants \in SUBSET DashTenantRows
    /\ dbPayments \in DbPaymentTables
    /\ today \in Todays
    /\ stats = InitialStats
    /\ dashLoading = TRUE
    /\ queryErrors = {}
    /\ dashToast = "none"

\* the session arrives: the effect on [user] runs again
DashboardSignIn ==
    /\ ~dashUser /\ dashLoading
    /\ dashUser' = TRUE
    /\ UNCHANGED <<tz, calcVars, viewVars, loopVars, formVars, paymentVars, documentVars, dbProperties, dbTenants,
                   dbPayments, today, stats, dashLoading, queryErrors, dashToast>>

\* fetchDashboardData without a user: returns at once
FetchDashboardDataNoUser ==
    /\ ~dashUser /\ dashLoading
    /\ UNCHANGED vars

\* fetchDashboardData: three queries, each answering with its data or with an
\* error (data and count null); the error is not read
FetchDashboardData ==
    /\ dashUser /\ dashLoading
    /\ \E propertiesFailed, tenantsFailed, paymentsFailed \in BOOLEAN :
        LET tenants == IF tenantsFailed THEN {} ELSE dbTenants
            payments == IF paymentsFailed THEN <<>>
                        ELSE NewestFirst(dbPayments, RecentPaymentsLimit)
        IN  /\ \E renewals \in UpcomingRenewals(tenants, today) :
                stats' = [totalProperties |-> IF propertiesFailed THEN 0 ELSE dbProperties,
                          totalTenants |-> Cardinality(tenants),
                          monthlyRevenue |-> MonthlyRevenue(tenants),
                          recentPayments |-> payments,
                          upcomingRenewals |-> renewals,
                          overduePayments |-> OverduePayments(payments, today)]
            /\ queryErrors' = {q \in {"properties", "tenants", "rent_payments"} :
                                 \/ q = "properties" /\ propertiesFailed
                                 \/ q = "tenants" /\ tenantsFailed
                                 \/ q = "rent_payments" /\ paymentsFailed}
    /\ dashLoading' = FALSE
    /\ UNCHANGED <<tz, calcVars, viewVars, loopVars, formVars, paymentVars, documentVars, dashUser, dbProperties,
                   dbTenants, dbPayments, today, dashToast>>

NextDashboard ==
    \/ DashboardSignIn
    \/ FetchDashboardDataNoUser
    \/ FetchDashboardData

SpecDashboard == InitDashboard /\ [][NextDashboard]_vars

-----------------------------------------------------------------------------
(* The payment add/edit form (AddPayment): the page *)

\* the component as constructed, before its effect has run
InitPayment ==
    /\ tz \in TimeZones
    /\ CalcIdle
    /\ FormIdle
    /\ DashIdle
    /\ DocumentsIdle
    /\ paymentPage = "mounted"
    /\ paymentUser \in BOOLEAN
    /\ paymentId \in {"none", "p1"}
    /\ paymentRow \in (IF paymentId = "none" THEN {NoPaymentRow} ELSE PaymentRows)
    /\ tenantRows \in TenantLists
    /\ paymentTenants = {}
    /\ paymentFetch = "tenants"
    /\ paymentIsEditing = FALSE
    /\ paymentLoading = TRUE
    /\ paymentSaving = FALSE
    /\ paymentFormData = InitialPaymentFormData
    /\ paymentRequest = NoPaymentRequest
    /\ paymentToast = "none"

PaymentFrame ==
    UNCHANGED <<tz, calcVars, viewVars, loopVars, formVars, dashVars, documentVars>>

\* fetchTenants: nothing without a user, else the list or an error toast
FetchTenantsOutcomes ==
    IF paymentUser
    THEN {[tenants |-> tenantRows, toast |-> paymentToast],
          [tenants |-> paymentTenants, toast |-> "Failed to fetch tenants"]}
    ELSE {[tenants |-> paymentTenants, toast |-> paymentToast]}

\* fetchData up to its second await: fetchTenants answered; on the add page
\* setLoading(false)
FetchTenants ==
    /\ paymentPage = "mounted" /\ paymentFetch = "tenants"
    /\ \E o \in FetchTenantsOutcomes :
        /\ paymentTenants' = o.tenants
        /\ paymentToast' = o.toast
        /\ paymentFormData' =
               AfterAutoAmountEffect(paymentFormData, paymentTenants,
                                     paymentFormData, o.tenants)
    /\ IF paymentId = "none"
       THEN paymentFetch' = "done" /\ paymentLoading' = FALSE
       ELSE paymentFetch' = "payment" /\ UNCHANGED paymentLoading
    /\ UNCHANGED <<paymentPage, paymentUser, paymentId, paymentRow, tenantRows,
                   paymentIsEditing, paymentSaving, paymentRequest>>
    /\ PaymentFrame

\* fetchPayment returning the row: the policy on rent_payments shows it to
\* its owner only
FetchPaymentLoaded ==
    /\ paymentPage = "mounted" /\ paymentFetch = "payment" /\ paymentUser
    /\ paymentIsEditing' = TRUE
    /\ paymentFormData' =
           AfterAutoAmountEffect(paymentFormData, paymentTenants,
                                 FormDataOfPayment(paymentRow), paymentTenants)
    /\ paymentLoading' = FALSE
    /\ paymentFetch' = "done"
    /\ UNCHANGED <<paymentPage, paymentUser, paymentId, paymentRow, tenantRows,
                   paymentTenants, paymentSaving, paymentRequest, paymentToast>>
    /\ PaymentFrame

\* fetchPayment failing
FetchPaymentFailed ==
    /\ paymentPage = "mounted" /\ paymentFetch = "payment"
    /\ paymentToast' = "Failed to load payment details"
    /\ paymentLoading' = FALSE
    /\ paymentFetch' = "done"
    /\ UNCHANGED <<paymentPage, paymentUser, paymentId, paymentRow, tenantRows,
                   paymentTenants, paymentIsEditing, paymentSaving,
                   paymentFormData, paymentRequest>>
    /\ PaymentFrame

\* an edit of the form; the user leaves the form alone while a save is in
\* flight
PaymentEditFrame ==
    /\ ~paymentSaving
    /\ UNCHANGED <<paymentPage, paymentUser, paymentId, paymentRow, tenantRows,
                   paymentTenants, paymentFetch, paymentIsEditing, paymentLoading,
                   paymentSaving, paymentRequest, paymentToast>>
    /\ PaymentFrame

\* the tenant selector, disabled while editing
SetTenantId ==
    /\ paymentPage = "mounted" /\ ~paymentIsEditing
    /\ \E t \in paymentTenants :
        paymentFormData' =
            AfterAutoAmountEffect(paymentFormData, paymentTenants,
                                  [paymentFormData EXCEPT !.tenant_id = t.id],
                                  paymentTenants)
    /\ PaymentEditFrame

SetPeriodMonthYear ==
    /\ paymentPage = "mounted"
    /\ \E v \in PeriodMonths :
        paymentFormData' = [paymentFormData EXCEPT !.period_month_year = v]
    /\ PaymentEditFrame

SetAmount ==
    /\ paymentPage = "mounted"
    /\ \E v \in {"", "9000"} :
        paymentFormData' = [paymentFormData EXCEPT !.amount = v]
    /\ PaymentEditFrame

SetPaymentMethod ==
    /\ paymentPage = "mounted"
    /\ \E v \in PaymentMethods :
        paymentFormData' = [paymentFormData EXCEPT !.payment_method = v]
    /\ PaymentEditFrame

\* the cheque inputs, rendered while the method is 'cheque'
SetChequeNumber ==
    /\ paymentPage = "mounted" /\ paymentFormData.payment_method = "cheque"
    /\ \E v \in {"", "C1"} :
        paymentFormData' = [paymentFormData EXCEPT !.cheque_number = v]
    /\ PaymentEditFrame

SetIssueBank ==
    /\ paymentPage = "mounted" /\ paymentFormData.payment_method = "cheque"
    /\ \E v \in {"", "B1"} :
        paymentFormData' = [paymentFormData EXCEPT !.issue_bank = v]
    /\ PaymentEditFrame

\* the deposit bank input, rendered for 'cheque' and 'bank_deposit'
SetDepositBank ==
    /\ paymentPage = "mounted"
    /\ paymentFormData.payment_method \in {"cheque", "bank_deposit"}
    /\ \E v \in {"", "B2"} :
        paymentFormData' = [paymentFormData EXCEPT !.deposit_bank = v]
    /\ PaymentEditFrame

PaymentSubmitEnabled ==
    paymentPage = "mounted" /\ ~paymentSaving /\ ~paymentLoading

\* the test without the amount
PaymentRequiredFilled_NoAmount ==
    /\ paymentFormData.tenant_id # ""
    /\ paymentFormData.period_month_year # EmptyString

PaymentRequiredFilled ==
    /\ paymentFormData.tenant_id # ""
    /\ paymentFormData.period_month_year # EmptyString
    /\ paymentFormData.amount # ""

\* handleSubmit without a user: returns at once
PaymentHandleSubmitNoUser ==
    /\ PaymentSubmitEnabled /\ ~paymentUser
    /\ UNCHANGED vars

\* handleSubmit with a required field empty: a toast, nothing sent
PaymentHandleSubmitInvalid ==
    /\ PaymentSubmitEnabled /\ paymentUser /\ ~PaymentRequiredFilled
    /\ paymentToast' = "Validation Error"
    /\ UNCHANGED <<paymentPage, paymentUser, paymentId, paymentRow, tenantRows,
                   paymentTenants, paymentFetch, paymentIsEditing, paymentLoading,
                   paymentSaving, paymentFormData, paymentRequest>>
    /\ PaymentFrame

\* handleSubmit up to its await: setSaving(true), the update or insert sent;
\* without a period end (none computed, or toISOString threw) the catch
\* block shows a toast and finally resets saving, nothing is sent
PaymentHandleSubmit ==
    /\ PaymentSubmitEnabled /\ paymentUser /\ PaymentRequiredFilled
    /\ LET paymentData ==
               PaymentData(paymentFormData,
                           SelectedTenant(paymentTenants, paymentFormData))
       IN  IF paymentData.period_end.kind = "iso"
           THEN /\ paymentSaving' = TRUE
                /\ paymentRequest' =
                       [state |-> "pending",
                        kind |-> IF paymentIsEditing /\ paymentId # "none"
                                 THEN "update" ELSE "insert",
                        data |-> paymentData]
                /\ UNCHANGED paymentToast
           ELSE /\ paymentToast' = "Failed to save payment"
                /\ UNCHANGED <<paymentSaving, paymentRequest>>
    /\ UNCHANGED <<paymentPage, paymentUser, paymentId, paymentRow, tenantRows,
                   paymentTenants, paymentFetch, paymentIsEditing, paymentLoading,
                   paymentFormData>>
    /\ PaymentFrame

\* the save answered without error: toast, navigate, finally setSaving(false)
PaymentSaveSucceeded ==
    /\ paymentRequest.state = "pending"
    /\ paymentRequest' = [paymentRequest EXCEPT !.state = "ok"]
    /\ paymentToast' = "Success"
    /\ paymentPage' = "left"
    /\ paymentSaving' = FALSE
    /\ UNCHANGED <<paymentUser, paymentId, paymentRow, tenantRows, paymentTenants,
                   paymentFetch, paymentIsEditing, paymentLoading, paymentFormData>>
    /\ PaymentFrame

\* the save answered with an error (nothing is written): toast, finally
\* setSaving(false)
PaymentSaveFailed ==
    /\ paymentRequest.state = "pending"
    /\ paymentRequest' = [paymentRequest EXCEPT !.state = "error",
                                                !.data = NoPaymentData]
    /\ paymentToast' = "Failed to save payment"
    /\ paymentSaving' = FALSE
    /\ UNCHANGED <<paymentPage, paymentUser, paymentId, paymentRow, tenantRows,
                   paymentTenants, paymentFetch, paymentIsEditing, paymentLoading,
                   paymentFormData>>
    /\ PaymentFrame

NextPayment ==
    \/ FetchTenants
    \/ FetchPaymentLoaded
    \/ FetchPaymentFailed
    \/ SetTenantId
    \/ SetPeriodMonthYear
    \/ SetAmount
    \/ SetPaymentMethod
    \/ SetChequeNumber
    \/ SetIssueBank
    \/ SetDepositBank
    \/ PaymentHandleSubmitNoUser
    \/ PaymentHandleSubmitInvalid
    \/ PaymentHandleSubmit
    \/ PaymentSaveSucceeded
    \/ PaymentSaveFailed

SpecPayment == InitPayment /\ [][NextPayment]_vars

\* the two forms, one of them open
SpecForms == (InitForm \/ InitPayment) /\ [][NextForm \/ NextPayment]_vars

-----------------------------------------------------------------------------
(* The documents' upload and delete handlers *)

DocumentsFrame ==
    UNCHANGED <<tz, calcVars, viewVars, loopVars, formVars, dashVars, paymentVars>>

\* the page with the tenant's documents listed: one document stored earlier
InitDocuments ==
    /\ tz = 0
    /\ CalcIdle
    /\ FormIdle
    /\ DashIdle
    /\ PaymentIdle
    /\ docView \in DocumentViews
    /\ storageObjects = {FilePath(0, "a.pdf")}
    /\ documentRows = {FilePath(0, "a.pdf")}
    /\ documents = {FilePath(0, "a.pdf")}
    /\ files = {}
    /\ uploading = FALSE
    /\ inFlight = {}
    /\ awaited = {}
    /\ uploadPc = "idle"
    /\ uploadCount = 0
    /\ deleting = NoDeletion
    /\ docToast = "none"

\* handleFileChange; the input is disabled while uploading
HandleFileChange ==
    /\ ~uploading
    /\ \E chosen \in SUBSET DocumentFiles : files' = chosen
    /\ UNCHANGED <<docView, storageObjects, documentRows, documents, uploading,
                   inFlight, awaited, uploadPc, uploadCount, deleting, docToast>>
    /\ DocumentsFrame

\* handleUpload up to its await: setUploading(true), one promise per file,
\* each starting with its storage upload
HandleUpload ==
    /\ files # {} /\ ~uploading
    /\ uploadCount < MaxUploads
    /\ uploadCount' = uploadCount + 1
    /\ uploading' = TRUE
    /\ awaited' = {FilePath(uploadCount', file) : file \in files}
    /\ inFlight' = inFlight \cup {Task(p, "upload") : p \in awaited'}
    /\ uploadPc' = "awaitAll"
    /\ UNCHANGED <<docView, storageObjects, documentRows, documents, files,
                   deleting, docToast>>
    /\ DocumentsFrame

\* Promise.all rejects with the first promise that rejects, if handleUpload
\* still awaits it: catch (toast), finally setUploading(false)
Rejected(p) ==
    IF p \in awaited
    THEN /\ awaited' = {}
         /\ uploadPc' = "idle"
         /\ uploading' = FALSE
         /\ docToast' = "Failed to upload files"
    ELSE UNCHANGED <<awaited, uploadPc, uploading, docToast>>

\* a file's storage upload answered without error: the promise goes on to
\* insert the row
StorageUploadDone ==
    /\ \E t \in inFlight :
        /\ t.step = "upload"
        /\ storageObjects' = storageObjects \cup {t.path}
        /\ inFlight' = (inFlight \ {t}) \cup {Task(t.path, "insert")}
    /\ UNCHANGED <<docView, documentRows, documents, files, uploading, awaited,
                   uploadPc, uploadCount, deleting, docToast>>
    /\ DocumentsFrame

\* a file's storage upload answered with an error: its promise rejects
StorageUploadFailed ==
    /\ \E t \in inFlight :
        /\ t.step = "upload"
        /\ inFlight' = inFlight \ {t}
        /\ Rejected(t.path)
    /\ UNCHANGED <<docView, storageObjects, documentRows, documents, files,
                   uploadCount, deleting>>
    /\ DocumentsFrame

\* a file's row inserted: its promise is fulfilled; with the last of them
\* Promise.all resolves: toast, then the page awaits fetchDocuments, while
\* the dialog asks its page to reload, closes and resets
InsertDone ==
    /\ \E t \in inFlight :
        /\ t.step = "insert"
        /\ documentRows' = documentRows \cup {t.path}
        /\ inFlight' = inFlight \ {t}
        /\ awaited' = awaited \ {t.path}
        /\ IF t.path \in awaited /\ awaited' = {}
           THEN /\ docToast' = "Success"
                /\ uploadPc' = "refresh"
                /\ IF docView = "Documents"
                   THEN UNCHANGED <<files, uploading>>
                   ELSE files' = {} /\ uploading' = FALSE
           ELSE UNCHANGED <<docToast, uploadPc, files, uploading>>
    /\ UNCHANGED <<docView, storageObjects, documents, uploadCount, deleting>>
    /\ DocumentsFrame

\* a file's row insert answered with an error: its promise rejects, the
\* object it uploaded stays in the bucket
InsertFailed ==
    /\ \E t \in inFlight :
        /\ t.step = "insert"
        /\ inFlight' = inFlight \ {t}
        /\ Rejected(t.path)
    /\ UNCHANGED <<docView, storageObjects, documentRows, documents, files,
                   uploadCount, deleting>>
    /\ DocumentsFrame

\* the reload after an upload: the rows, or a toast; on the page handleUpload
\* then does setFiles([]) and, finally, setUploading(false)
FetchDocuments ==
    /\ uploadPc = "refresh"
    /\ \/ documents' = documentRows /\ UNCHANGED docToast
       \/ docToast' = "Failed to load documents" /\ UNCHANGED documents
    /\ uploadPc' = "idle"
    /\ IF docView = "Documents"
       THEN files' = {} /\ uploading' = FALSE
       ELSE UNCHANGED <<files, uploading>>
    /\ UNCHANGED <<docView, storageObjects, documentRows, inFlight, awaited,
                   uploadCount, deleting>>
    /\ DocumentsFrame

\* handleDelete / handleDeleteDocument, confirmed, up to its first await
HandleDelete ==
    /\ deleting = NoDeletion
    /\ \E p \in documents : deleting' = [path |-> p, step |-> "storage"]
    /\ UNCHANGED <<docView, storageObjects, documentRows, documents, files,
                   uploading, inFlight, awaited, uploadPc, uploadCount, docToast>>
    /\ DocumentsFrame

\* the storage removal answered without error: the row's delete is sent
StorageRemoveDone ==
    /\ deleting.step = "storage"
    /\ storageObjects' = storageObjects \ {deleting.path}
    /\ deleting' = [deleting EXCEPT !.step = "row"]
    /\ UNCHANGED <<docView, documentRows, documents, files, uploading, inFlight,
                   awaited, uploadPc, uploadCount, docToast>>
    /\ DocumentsFrame

\* either request of the delete answered with an error: toast, nothing else
DeleteFailed ==
    /\ deleting.step \in {"storage", "row"}
    /\ deleting' = NoDeletion
    /\ docToast' = "Failed to delete document"
    /\ UNCHANGED <<docView, storageObjects, documentRows, documents, files,
                   uploading, inFlight, awaited, uploadPc, uploadCount>>
    /\ DocumentsFrame

\* the row's delete answered without error: the list drops the document
RowDeleteDone ==
    /\ deleting.step = "row"
    /\ documentRows' = documentRows \ {deleting.path}
    /\ documents' = documents \ {deleting.path}
    /\ deleting' = NoDeletion
    /\ docToast' = "Success"
    /\ UNCHANGED <<docView, storageObjects, files, uploading, inFlight, awaited,
                   uploadPc, uploadCount>>
    /\ DocumentsFrame

NextDocuments ==
    \/ HandleFileChange
    \/ HandleUpload
    \/ StorageUploadDone
    \/ StorageUploadFailed
    \/ InsertDone
    \/ InsertFailed
    \/ FetchDocuments
    \/ HandleDelete
    \/ StorageRemoveDone
    \/ DeleteFailed
    \/ RowDeleteDone

SpecDocuments == InitDocuments /\ [][NextDocuments]_vars

-----------------------------------------------------------------------------

(* Calendar arithmetic the statements below are phrased in *)

Min(a, b) == IF a <= b THEN a ELSE b

DurationMonths(t) == t.contract_period_years * 12 + t.contract_period_months

\* date + n calendar months, the day kept within the target month
CalendarPlusMonths(s, n) ==
    LET idx == (s.m - 1) + n
        y == s.y + idx \div 12
        m == (idx % 12) + 1
    IN  Iso(y, m, Min(s.d, DaysInMonth(y, m)))

CalendarMinusOneDay(s) ==
    LET c == CivilFromDays(DaysFromCivil(s.y, s.m, s.d) - 1) IN Iso(c.y, c.m, c.d)

\* start + n months, minus one day
InclusiveEnd(s, n) == CalendarMinusOneDay(CalendarPlusMonths(s, n))

\* the same with a day the target month lacks rolled into the next month
OverflowEnd(s, n) ==
    LET c == CivilFromDays(MakeDay(s.y, (s.m - 1) + n, s.d) - 1) IN Iso(c.y, c.m, c.d)

RECURSIVE SumMonths(_)
SumMonths(rows) ==
    IF rows = <<>> THEN 0 ELSE Head(rows).months + SumMonths(Tail(rows))

\* the calendar year in which contract month i (0-based) of a contract
\* starting in month s.m of year s.y begins
YearOfContractMonth(s, i) == (s.y * 12 + (s.m - 1) + i) \div 12

\* number of j >= 1 with start + j * intervalYears years <= on (calendar dates)
ElapsedIntervals(s, intervalYears, on) ==
    Cardinality({j \in 1..Max(on.y - s.y, 0) :
        DaysFromCivil(s.y + j * intervalYears, s.m, s.d)
            <= DaysFromCivil(on.y, on.m, on.d)})

\* base * (1 + pct/100)^k
Compounded(base, pct, k) ==
    LET g == GCD(100 + pct, 100)
    IN  Amount(base * Pow((100 + pct) \div g, k), Pow(100 \div g, k))

-----------------------------------------------------------------------------
(* Claims *)

\* C1: for a contract of D >= 1 months the months of the rows returned by
\* buildYearlyBreakdown sum to D.  (Refuted: the rows count every calendar
\* month the contract touches, one too many when the start is not the first
\* of a month; D = 0 falls back to a one-year window.)
C1_MonthSumEqualsDuration ==
    (op = "buildYearlyBreakdown" /\ DurationMonths(tenant) >= 1)
        => SumMonths(breakdown) = DurationMonths(tenant)

\* C2: for a valid start date and a duration of D >= 1 months,
\* calculateContractEndDate returns start + D months minus one day.  Either
\* reading of "plus D months" is accepted for a day the target month lacks:
\* the last day of that month, or the overflow into the next one.
\* (Refuted: years and months are added in two steps, so a start on
\* 29 February overflows twice; and west of UTC the local date the setters
\* work on is the day before the string's date.)
C2_EndDateIsStartPlusDurationMinusOneDay ==
    (/\ op = "calculateContractEndDate"
     /\ tenant.contract_start_date.kind = "iso"
     /\ DurationMonths(tenant) >= 1)
        => endDate \in {InclusiveEnd(tenant.contract_start_date, DurationMonths(tenant)),
                        OverflowEnd(tenant.contract_start_date, DurationMonths(tenant))}

\* C3: getEffectiveMonthlyRentForDate returns base * (1 + pct/100)^k with k
\* the number of j >= 1 such that start + j*interval years <= atDate, an
\* anniversary equal to atDate counting.  (Refuted: stepping year by year
\* from 29 February drifts to 1 March; east of UTC the anniversary instant
\* lies after local midnight of the anniversary's date.)
C3_RentCompoundsPerElapsedInterval ==
    (/\ op = "getEffectiveMonthlyRentForDate"
     /\ tenant.rent_increment_interval_years >= 1
     /\ tenant.rent_increment_percentage >= 0)
        => rent = Compounded(tenant.monthly_rent, tenant.rent_increment_percentage,
                      ElapsedIntervals(tenant.contract_start_date,
                          tenant.rent_increment_interval_years, onDate.date))

\* C4: the contract_end_date a save of the tenant form sends is
\* calculateContractEndDate of the start date, years and months sent with it
\* (an unparsable number read as 0, as the form's own display reads it).
\* (Refuted: handleSubmit sends formData.contract_end_date, which only
\* fetchTenant ever sets: null on the add page, the loaded row's end date
\* after an edit of the dates.)
C4_SentEndDateMatchesCalculator ==
    request.state # "none" =>
        request.data.contract_end_date =
            calculateContractEndDate(request.data.contract_start_date,
                OrZero(request.data.contract_period_years),
                OrZero(request.data.contract_period_months))

\* C5: with years = 0 and months = 0 calculateContractEndDate returns null
\* for every start date, never a date.
C5_ZeroDurationIsNull ==
    (/\ op = "calculateContractEndDate"
     /\ tenant.contract_period_years = 0
     /\ tenant.contract_period_months = 0)
        => endDate = Null

C5_Witness ==
    /\ op = "calculateContractEndDate"
    /\ tenant.contract_start_date = Iso(2024, 1, 1)
    /\ tenant.contract_period_years = 0
    /\ tenant.contract_period_months = 0
    /\ endDate = Null

\* C6: with an empty or invalid start date calculateContractEndDate returns
\* null and raises nothing, for every years and months.  (Refuted: a string
\* that is no date makes toISOString throw a RangeError.)
C6_BadStartIsNullNeverThrows ==
    (/\ op = "calculateContractEndDate"
     /\ tenant.contract_start_date.kind \in {"empty", "text"})
        => endDate = Null

\* C7: buildYearlyBreakdown returns one row per calendar year from the year
\* of the contract start date to the year of the contract end date (as
\* calculateContractEndDate gives it, or start + D months minus one day), in
\* increasing order.  (Refuted: east of UTC a contract starting on
\* 31 December gets no row for its first year.)
C7_OneRowPerCalendarYear ==
    (op = "buildYearlyBreakdown" /\ DurationMonths(tenant) >= 1)
        => /\ Len(breakdown) + tenant.contract_start_date.y - 1 \in
                {endDate.y,
                 InclusiveEnd(tenant.contract_start_date, DurationMonths(tenant)).y}
           /\ \A i \in DOMAIN breakdown :
                breakdown[i].yearLabel = tenant.contract_start_date.y + i - 1

\* C8: each row holds the number of contract months in its calendar year:
\* 2023-03-01 for 6 months gives the one row {2023, 6}; 2023-10-01 for 6
\* months gives {2023, 3} and {2024, 3}.  (Refuted west of UTC, where the
\* start is read as the last day of the month before.)
C8_RowsCountContractMonths ==
    op = "buildYearlyBreakdown" =>
        /\ (/\ tenant.contract_start_date = Iso(2023, 3, 1)
            /\ tenant.contract_period_years = 0
            /\ tenant.contract_period_months = 6)
              => /\ Len(breakdown) = 1
                 /\ breakdown[1].yearLabel = 2023
                 /\ breakdown[1].months = 6
        /\ (/\ tenant.contract_start_date = Iso(2023, 10, 1)
            /\ tenant.contract_period_years = 0
            /\ tenant.contract_period_months = 6)
              => /\ Len(breakdown) = 2
                 /\ breakdown[1].yearLabel = 2023 /\ breakdown[1].months = 3
                 /\ breakdown[2].yearLabel = 2024 /\ breakdown[2].months = 3
        /\ (tenant.contract_start_date.d = 1 /\ DurationMonths(tenant) >= 1)
              => \A i \in DOMAIN breakdown :
                    breakdown[i].months =
                        Cardinality({k \in 0..(DurationMonths(tenant) - 1) :
                            YearOfContractMonth(tenant.contract_start_date, k)
                                = breakdown[i].yearLabel})

\* C9: each row's totalAmount is months times the effective monthly rent at
\* the first day of the month in which the contract's part of that year
\* begins: the contract's start month in the start year, January afterwards.
C9_RowTotalIsMonthsTimesRentAtPeriodStart ==
    op = "buildYearlyBreakdown" =>
        \A i \in DOMAIN breakdown :
            LET row == breakdown[i]
                s == tenant.contract_start_date
                ref == IF row.yearLabel = s.y
                       THEN NewDateLocal(s.y, s.m - 1, 1)
                       ELSE NewDateLocal(row.yearLabel, 0, 1)
            IN  row.totalAmount =
                    Times(getEffectiveMonthlyRentForDate(tenant, ref), row.months)

C9_Witness ==
    /\ op = "buildYearlyBreakdown"
    /\ tenant.rent_increment_percentage > 0
    /\ tenant.rent_increment_interval_years = 1
    /\ Len(breakdown) = 3
    /\ breakdown[1].totalAmount = Whole(tenant.monthly_rent * breakdown[1].months)
    /\ breakdown[3].totalAmount # Whole(tenant.monthly_rent * breakdown[3].months)

\* C10: with incrementIntervalYears = 0 or incrementPercent = 0 the
\* effective monthly rent is the base rent at every date, and every row's
\* totalAmount is base rent times months.
C10_NoIncrementKeepsBaseRent ==
    (tenant.rent_increment_interval_years = 0 \/ tenant.rent_increment_percentage = 0)
        => /\ op = "getEffectiveMonthlyRentForDate" => rent = Whole(tenant.monthly_rent)
           /\ op = "buildYearlyBreakdown" =>
                \A i \in DOMAIN breakdown :
                    breakdown[i].totalAmount
                        = Whole(tenant.monthly_rent * breakdown[i].months)

C10_Witness ==
    /\ op = "getEffectiveMonthlyRentForDate"
    /\ tenant.rent_increment_interval_years = 0
    /\ tenant.rent_increment_percentage > 0
    /\ tenant.contract_start_date = Iso(2020, 1, 1)
    /\ onDate.date = Iso(2024, 6, 1)
    /\ rent = Whole(tenant.monthly_rent)

\* a <= b for amounts
AmountLeq(a, b) == a.n * b.d <= b.n * a.d

\* C11: with incrementPercent > 0, getEffectiveMonthlyRentForDate is
\* non-decreasing in the reference date: the rent at onDate is at most the
\* rent at every later reference date.
C11_RentNonDecreasingInDate ==
    (op = "getEffectiveMonthlyRentForDate" /\ tenant.rent_increment_percentage > 0)
        => \A d2 \in OnDates :
              onDate.t <= d2.t
                  => AmountLeq(rent, getEffectiveMonthlyRentForDate(tenant, d2.t))

C11_Witness ==
    /\ op = "getEffectiveMonthlyRentForDate"
    /\ tenant.rent_increment_percentage = 10
    /\ tenant.rent_increment_interval_years = 1
    /\ tenant.contract_start_date = Iso(2020, 1, 1)
    /\ onDate.date = Iso(2021, 6, 1)
    /\ rent = Whole(11000)
    /\ \E d2 \in OnDates :
          /\ onDate.t <= d2.t
          /\ getEffectiveMonthlyRentForDate(tenant, d2.t) = Whole(14641)

\* the calendar date a is on or after the calendar date b
OnOrAfter(a, b) == DaysFromCivil(a.y, a.m, a.d) >= DaysFromCivil(b.y, b.m, b.d)

\* C12: for every start date and every duration of at least one month the
\* date calculateContractEndDate returns is on or after the start date.
C12_EndDateNotBeforeStart ==
    (/\ op = "calculateContractEndDate"
     /\ tenant.contract_start_date.kind = "iso"
     /\ DurationMonths(tenant) >= 1)
        => /\ endDate.kind = "iso"
           /\ OnOrAfter(endDate, tenant.contract_start_date)

C12_Witness ==
    /\ op = "calculateContractEndDate"
    /\ tenant.contract_start_date = Iso(2020, 3, 1)
    /\ tenant.contract_period_years = 0
    /\ tenant.contract_period_months = 1
    /\ tz = -1
    /\ endDate = Iso(2020, 3, 29)

\* the months the five tags stand for, 1 for every other tag
FrequencyMonthsOf(f) ==
    CASE f = "monthly" -> 1 [] f = "bi-monthly" -> 2 [] f = "tri-monthly" -> 3
      [] f = "semi-annually" -> 6 [] f = "yearly" -> 12 [] OTHER -> 1

C14_PayableIsRentTimesFrequencyMonths ==
    op = "payableAmount" =>
        /\ payable.form =
              Num((IF payable.rentText = "" THEN 0 ELSE IntOfText(payable.rentText))
                    * FrequencyMonthsOf(frequency))
        /\ payable.details = Num(tenant.monthly_rent * FrequencyMonthsOf(frequency))
        /\ payable.payment = ToString(tenant.monthly_rent * FrequencyMonthsOf(frequency))

C14_Witness ==
    /\ op = "payableAmount"
    /\ frequency = "semi-annually"
    /\ payable.rentText = "10000"
    /\ tenant.monthly_rent = 10000
    /\ payable.form = Num(60000)
    /\ payable.details = Num(60000)
    /\ payable.payment = "60000"

\* C15: getEffectiveMonthlyRentForDate and buildYearlyBreakdown terminate for
\* every input (interval 0, percentage 0, negative or missing increment
\* values, zero duration, a reference date before the start), and the
\* interval loop is only entered with an interval of at least one year.
\* Termination by a variant: an iteration that stays in the interval loop
\* moves check strictly forward and not beyond onDate; an iteration that
\* stays in the year loop moves cursor strictly forward from a cursor not
\* beyond the contract end; and the next iteration can always be taken.
C15_LoopsTerminate ==
    /\ [](pc = "rentLoop" =>
            (IntervalYearsOf(tenant) >= 1 /\ loopIntervals < MaxIntervals))
    /\ [][(pc = "rentLoop" /\ pc' = "rentLoop")
            => (loopCheck < loopCheck' /\ loopCheck' <= onDate.t)]_vars
    /\ [][(pc = "breakdownLoop" /\ pc' = "breakdownLoop")
            => (loopCursor < loopCursor' /\ loopCursor <= loopEnd)]_vars

C15_Witness ==
    /\ pc = "done"
    /\ op = "getEffectiveMonthlyRentForDate"
    /\ increment.interval = Num(2)
    /\ increment.pct = Num(10)
    /\ loopIntervals = 2
    /\ rent = Whole(12100)
    /\ rent = getEffectiveMonthlyRentForDate(tenant, onDate.t)

\* a JavaScript number that is a non-negative integer (not NaN)
NonNegative(n) == ~n.nan /\ n.v >= 0

\* C16: callers coerce years and months to 0 before use: the values the
\* form's end-date line gives calculateContractEndDate, and the
\* contract_period_years and contract_period_months a save sends, are
\* non-negative integers, an empty or unparsable field counting as 0.
\* (Refuted: handleSubmit sends parseInt(field) as it is, NaN for an empty
\* field; only the end-date line applies || 0.)
C16_PeriodCoercedToZero ==
    /\ page = "mounted" =>
          /\ OrZero(parseInt(formData.contract_period_years)) >= 0
          /\ OrZero(parseInt(formData.contract_period_months)) >= 0
    /\ request.state # "none" =>
          /\ NonNegative(request.data.contract_period_years)
          /\ NonNegative(request.data.contract_period_months)

\* C17 as stated: whenever calculateContractEndDate yields no end date, the
\* tenant form, the tenant card and the details dialog all render
\* "Not calculated".  (Refuted: the card and the dialog render "N/A".)
C17_NoEndDateShowsNotCalculated ==
    (op = "renderContractEndDate" /\ endDate = Null)
        => /\ shown.form = Label("Not calculated")
           /\ shown.card = Label("Not calculated")
           /\ shown.dialog = Label("Not calculated")

\* C17 as amended: whenever calculateContractEndDate yields no end date, the
\* tenant form renders "Not calculated" and the tenant card and the details
\* dialog render "N/A"; none of them renders a date.
C17_NoEndDateShowsPlaceholder ==
    (op = "renderContractEndDate" /\ endDate = Null)
        => /\ shown.form = Label("Not calculated")
           /\ shown.card = Label("N/A")
           /\ shown.dialog = Label("N/A")

C17_Witness ==
    /\ op = "renderContractEndDate"
    /\ tenant.contract_start_date = Iso(2024, 1, 1)
    /\ tenant.contract_period_years = 0
    /\ tenant.contract_period_months = 0
    /\ endDate = Null
    /\ shown.form = Label("Not calculated")
    /\ shown.card = Label("N/A")

\* C18: every remote call that returns an error is surfaced to the user as
\* an error notification; no load continues silently with partial or empty
\* data after a remote error, the dashboard's property, tenant and payment
\* queries included.  (Refuted: fetchDashboardData reads only data and count
\* of its three answers and shows the empty figures.)
C18_RemoteErrorsAreSurfaced ==
    queryErrors # {} => dashToast # "none"

\* C19: the contract_end_date the trigger calculate_contract_end_date stores
\* on a tenant insert or update equals the calculator's end date for the
\* stored terms, start + years + months minus one day, for every start date
\* and every period of at least one month.  (Refuted: the trigger does not
\* subtract the day.)
C19_TriggerAgreesWithCalculator ==
    (op = "calculate_contract_end_date" /\ DurationMonths(tenant) >= 1) =>
        /\ storedEndDate = endDate
        /\ storedEndDate \in
              {InclusiveEnd(tenant.contract_start_date, DurationMonths(tenant)),
               OverflowEnd(tenant.contract_start_date, DurationMonths(tenant))}

\* C20: for every start date and non-negative years and months, not both 0,
\* the contract end the dashboard computes for its renewals (years*12 +
\* months added in one step, minus one day) is the same date as
\* calculateContractEndDate gives (years, then months, minus one day),
\* leap-day starts included.  (Refuted: from 29 February the calculator's
\* year step lands on 1 March before the months are added.)
C20_DashboardEndAgreesWithCalculator ==
    (op = "upcomingRenewals" /\ DurationMonths(tenant) >= 1)
        => renewalEndDate = endDate

\* C22: In the tenant form, every handleSubmit that sets the saving flag
\* resets it once the insert or update has been answered, with or without an
\* error: while the form is displayed and no save is in flight, saving is
\* false, so the submit button is enabled again after a failed save.
C22_SavingResetAfterSave ==
    (page = "mounted" /\ request.state # "pending") => ~saving

\* C24: Updating an existing tenant through the tenant form leaves the row's
\* created_at unchanged: no step changes the created_at of a row of
\* public.tenants that exists, only creating the row sets it.
C24_UpdateKeepsCreatedAt ==
    [][\A id \in DOMAIN timestamps :
          /\ id \in DOMAIN timestamps'
          /\ timestamps'[id].created_at = timestamps[id].created_at]_vars

\* the months of the billing period of the tenant a payment is for, 1 when
\* the page's tenants hold no such tenant
BillingFrequencyMonths(tenants, id) ==
    LET selected == {t \in tenants : t.id = id}
    IN  IF selected = {} THEN 1
        ELSE FrequencyMonthsOf((CHOOSE t \in selected : TRUE).rent_frequency)

\* C21: a payment saved by the payment form for the selected period month M
\* and a tenant billed every f months has period_start = the first day of M
\* and period_end = the last day of month M + f - 1 (f = 1 when no tenant is
\* selected).
C21_PeriodCoversWholeMonths ==
    paymentRequest.state \in {"pending", "ok"} =>
        LET M == paymentFormData.period_month_year
            f == BillingFrequencyMonths(paymentTenants,
                                        paymentRequest.data.tenant_id)
        IN  /\ paymentRequest.data.period_start = Iso(M.y, M.m, 1)
            /\ paymentRequest.data.period_end = InclusiveEnd(Iso(M.y, M.m, 1), f)

\* C23: when an existing payment is opened for editing, the step that
\* completes loading leaves in the amount field the amount stored in the
\* payment record; the auto-calculated amount (monthly rent * frequency
\* months) of the payment's tenant does not replace it.
C23_EditShowsStoredAmount ==
    [][(paymentLoading /\ ~paymentLoading' /\ paymentIsEditing')
          => paymentFormData'.amount = NumberToString(Num(paymentRow.amount))]_vars

\* C29: every payment record the payment form writes has cheque_number and
\* issue_bank null unless payment_method is 'cheque', and deposit_bank null
\* unless payment_method is 'cheque' or 'bank_deposit', whatever the form's
\* fields hold from an earlier choice of method.
C29_MethodFieldsNullForOtherMethods ==
    paymentRequest.state \in {"pending", "ok"} =>
        LET d == paymentRequest.data
        IN  /\ d.payment_method # "cheque" =>
                  d.cheque_number = NullText /\ d.issue_bank = NullText
            /\ d.payment_method \notin {"cheque", "bank_deposit"} =>
                  d.deposit_bank = NullText

\* a cash payment written while the form still holds a cheque number, an
\* issue bank and a deposit bank typed under another method
C29_Witness ==
    /\ paymentRequest.state = "ok"
    /\ paymentRequest.data.payment_method = "cash"
    /\ paymentFormData.cheque_number # ""
    /\ paymentFormData.issue_bank # ""
    /\ paymentFormData.deposit_bank # ""

\* C28: the payment form and the tenant form send no insert or update when a
\* required field is empty (payment: tenant, period month, amount; tenant:
\* name, monthly rent, contract start date, property) or when no user is
\* signed in; a submit refused for an empty field leaves the saving flag, the
\* form data, the page and the request as they were.
C28_NoSaveWithoutRequiredFields ==
    /\ [](request.state # "none" =>
            /\ user
            /\ request.data.name # ""
            /\ ~request.data.monthly_rent.nan
            /\ request.data.contract_start_date # EmptyString
            /\ request.data.property_id # "")
    /\ [](paymentRequest.state \in {"pending", "ok"} =>
            /\ paymentUser
            /\ paymentRequest.data.tenant_id # ""
            /\ paymentRequest.data.period_end # Null
            /\ ~paymentRequest.data.amount.nan)
    /\ []((saving => request.state # "none")
            /\ (page = "left" => request.state = "ok")
            /\ (paymentSaving => paymentRequest.state = "pending")
            /\ (paymentPage = "left" => paymentRequest.state = "ok"))
    /\ [][(toast' = "Validation Error" /\ toast # "Validation Error")
             => UNCHANGED <<saving, formData, page, request>>]_vars
    /\ [][(paymentToast' = "Validation Error" /\ paymentToast # "Validation Error")
             => UNCHANGED <<paymentSaving, paymentFormData, paymentPage,
                            paymentRequest>>]_vars

\* the payment form refused a submit with a tenant and a month chosen and the
\* amount emptied
C28_Witness ==
    /\ paymentToast = "Validation Error"
    /\ paymentUser
    /\ paymentFormData.tenant_id # ""
    /\ paymentFormData.period_month_year # EmptyString
    /\ paymentFormData.amount = ""
    /\ paymentRequest.state = "none"
    /\ ~paymentSaving
    /\ paymentPage = "mounted"

(* C25: once a file's upload attempt is over, the object it wrote to the     *)
(* bucket has its row in tenant_documents: no stored object is without a row *)
(* unless its insert is still to be answered                                 *)
C25_NoOrphanedStorageObject ==
    \A p \in storageObjects :
        p \in documentRows \/ Task(p, "insert") \in inFlight

(* C26: with no delete in progress, every row of tenant_documents refers to  *)
(* an object the bucket holds, and a document leaves the displayed list only *)
(* when both its object and its row are gone                                 *)
C26_RowsKeepTheirObjects ==
    /\ [](deleting = NoDeletion =>
            \A p \in documentRows : p \in storageObjects)
    /\ [][\A p \in documents \ documents' :
            p \notin storageObjects' /\ p \notin documentRows']_vars

(* C27: while uploading is false no storage upload and no row insert is in   *)
(* flight, also after one file of several failed                             *)
C27_IdleMeansNothingInFlight ==
    ~uploading => inFlight = {}

(* C30: once the dashboard has loaded with the payments query answered, its  *)
(* overdue count is the number of the user's payments that are unpaid and    *)
(* whose period_end is before the current date, whenever they were created   *)
C30_OverdueCountsAllPayments ==
    (~dashLoading /\ "rent_payments" \notin queryErrors) =>
        Len(stats.overduePayments) =
            Cardinality({p \in dbPayments :
                ~p.paid /\ DaysFromCivil(p.period_end.y, p.period_end.m,
                                         p.period_end.d) < LocalDay(today)})

====
